---- MODULE Spec2Model ----
(***************************************************************************)
(* PDF bill processing of backend/server.py: per-page extraction results   *)
(* are classified and repaired by upload-pdf, ordered by the GPS router,   *)
(* renumbered by arrange-by-route and re-emitted by generate-pdf and the   *)
(* employee splits.  The document store (db.bills, db.batches) and the     *)
(* upload directory are the state; every request handler is one action.    *)
(*                                                                         *)
(* Conventions.  Python strings are sequences of one-character strings.    *)
(* Coordinates are integers in units of 1e-7 degree as parsed from the     *)
(* page text; None stands for Python's None.  Requests are those of an     *)
(* authenticated ADMIN user with a *.pdf upload name, so the 403/400       *)
(* early returns of the handlers are not taken.  find() without a sort     *)
(* returns documents in insertion order and sort() is stable on ties.      *)
(***************************************************************************)
EXTENDS Integers, Sequences, FiniteSets, TLC

VARIABLES bills, batches, users, files, written, req, resp, now, uuids

vars == <<bills, batches, users, files, written, req, resp, now, uuids>>

-----------------------------------------------------------------------------
(* Python values *)

None == -1

\* Truth value of a float-or-None field: None and 0.0 are falsy.
Truthy(x) == x # None /\ x # 0

Digits == <<"0", "1", "2", "3", "4", "5", "6", "7", "8", "9">>

DigitChars == {Digits[i] : i \in 1..10}

DigitValue(c) == (CHOOSE i \in 1..10 : Digits[i] = c) - 1

\* The character U+00B2 (superscript two): a digit for str.isdigit(), not a
\* decimal digit for int() or for the class \d of a regular expression.
Superscript2 == "^2"

\* str.isdigit(): non-empty and every character a digit.
isdigit(s) == Len(s) > 0 /\ \A i \in 1..Len(s) : s[i] \in DigitChars \cup {Superscript2}

\* int(s) raises ValueError unless s is a non-empty string of decimal digits.
int_raises(s) == s = <<>> \/ \E i \in 1..Len(s) : s[i] \notin DigitChars

\* str.strip() for the blank character.
RECURSIVE lstrip(_)
lstrip(s) == IF s # <<>> /\ Head(s) = " " THEN lstrip(Tail(s)) ELSE s

RECURSIVE rstrip(_)
rstrip(s) == IF s # <<>> /\ s[Len(s)] = " " THEN rstrip(SubSeq(s, 1, Len(s) - 1)) ELSE s

strip(s) == rstrip(lstrip(s))

\* int(s) of a digit string.
RECURSIVE int(_)
int(s) == IF s = <<>> THEN 0 ELSE 10 * int(SubSeq(s, 1, Len(s) - 1)) + DigitValue(s[Len(s)])

\* str(n), also what an f-string renders, for n >= 0.
RECURSIVE str(_)
str(n) == IF n < 10 THEN <<Digits[n + 1]>> ELSE str(n \div 10) \o <<Digits[(n % 10) + 1]>>

\* math.ceil(a / b) for a >= 0, b > 0.
ceil_div(a, b) == (a + b - 1) \div b

Min(a, b) == IF a < b THEN a ELSE b

Range(s) == {s[i] : i \in 1..Len(s)}

-----------------------------------------------------------------------------
(* Geometry *)

\* round(x, 6): units of 1e-7 degree to units of 1e-6 degree.  No sample
\* coordinate ends in the digit 5, where the binary value decides.
round6(x) == (x + 5) \div 10

\* haversine_distance at the rounded sample locations, in micrometres: the
\* source function evaluated in double precision and rounded to an integer.
\* On these points the integers compare (<, =) exactly as the doubles do.
HaversineTable ==
    <<28600500, 77200000, 28600500, 77200000>> :> 0
 @@ <<28600500, 77200000, 28600501, 77200000>> :> 111195
 @@ <<28600500, 77200000, 28605000, 77200000>> :> 500377170
 @@ <<28600500, 77200000, 28596000, 77200000>> :> 500377170
 @@ <<28600500, 77200000, 28601000, 77205000>> :> 491288803
 @@ <<28600501, 77200000, 28600500, 77200000>> :> 111195
 @@ <<28600501, 77200000, 28600501, 77200000>> :> 0
 @@ <<28600501, 77200000, 28605000, 77200000>> :> 500265975
 @@ <<28600501, 77200000, 28596000, 77200000>> :> 500488365
 @@ <<28600501, 77200000, 28601000, 77205000>> :> 491276229
 @@ <<28605000, 77200000, 28600500, 77200000>> :> 500377170
 @@ <<28605000, 77200000, 28600501, 77200000>> :> 500265975
 @@ <<28605000, 77200000, 28605000, 77200000>> :> 0
 @@ <<28605000, 77200000, 28596000, 77200000>> :> 1000754340
 @@ <<28605000, 77200000, 28601000, 77205000>> :> 660372920
 @@ <<28596000, 77200000, 28600500, 77200000>> :> 500377170
 @@ <<28596000, 77200000, 28600501, 77200000>> :> 500488365
 @@ <<28596000, 77200000, 28605000, 77200000>> :> 1000754340
 @@ <<28596000, 77200000, 28596000, 77200000>> :> 0
 @@ <<28596000, 77200000, 28601000, 77205000>> :> 739859180
 @@ <<28601000, 77205000, 28600500, 77200000>> :> 491288803
 @@ <<28601000, 77205000, 28600501, 77200000>> :> 491276229
 @@ <<28601000, 77205000, 28605000, 77200000>> :> 660372920
 @@ <<28601000, 77205000, 28596000, 77200000>> :> 739859180
 @@ <<28601000, 77205000, 28601000, 77205000>> :> 0
 @@ <<28600500, 77200000, 28601000, 77202500>> :> 250318758
 @@ <<28600500, 77200000, 28601000, 77197500>> :> 250318758
 @@ <<28600501, 77200000, 28601000, 77202500>> :> 250294083
 @@ <<28600501, 77200000, 28601000, 77197500>> :> 250294083
 @@ <<28605000, 77200000, 28601000, 77202500>> :> 507340949
 @@ <<28605000, 77200000, 28601000, 77197500>> :> 507340949
 @@ <<28596000, 77200000, 28601000, 77202500>> :> 607189218
 @@ <<28596000, 77200000, 28601000, 77197500>> :> 607189218
 @@ <<28601000, 77205000, 28601000, 77202500>> :> 244065809
 @@ <<28601000, 77205000, 28601000, 77197500>> :> 732197426
 @@ <<28601000, 77202500, 28600500, 77200000>> :> 250318758
 @@ <<28601000, 77202500, 28600501, 77200000>> :> 250294083
 @@ <<28601000, 77202500, 28605000, 77200000>> :> 507340949
 @@ <<28601000, 77202500, 28596000, 77200000>> :> 607189218
 @@ <<28601000, 77202500, 28601000, 77205000>> :> 244065809
 @@ <<28601000, 77202500, 28601000, 77202500>> :> 0
 @@ <<28601000, 77202500, 28601000, 77197500>> :> 488131618
 @@ <<28601000, 77197500, 28600500, 77200000>> :> 250318758
 @@ <<28601000, 77197500, 28600501, 77200000>> :> 250294083
 @@ <<28601000, 77197500, 28605000, 77200000>> :> 507340949
 @@ <<28601000, 77197500, 28596000, 77200000>> :> 607189218
 @@ <<28601000, 77197500, 28601000, 77205000>> :> 732197426
 @@ <<28601000, 77197500, 28601000, 77202500>> :> 488131618
 @@ <<28601000, 77197500, 28601000, 77197500>> :> 0

haversine_distance(lat1, lon1, lat2, lon2) == HaversineTable[<<lat1, lon1, lat2, lon2>>]

\* ((vs.lat - lat) ** 2 + (vs.lng - lng) ** 2) ** 0.5 at the raw sample
\* coordinates, in units of 1e-11 degree: evaluated in double precision and
\* rounded; the integers compare (<, =) exactly as the doubles do.
EuclidTable ==
    <<286005000, 772000000, 286005000, 772000000>> :> 0
 @@ <<286005000, 772000000, 286004996, 772000003>> :> 50000
 @@ <<286005000, 772000000, 286005012, 772000000>> :> 120000
 @@ <<286005000, 772000000, 286050000, 772000000>> :> 450000000
 @@ <<286005000, 772000000, 285960000, 772000000>> :> 450000000
 @@ <<286005000, 772000000, 286010000, 772050000>> :> 502493781
 @@ <<286004996, 772000003, 286005000, 772000000>> :> 50000
 @@ <<286004996, 772000003, 286004996, 772000003>> :> 0
 @@ <<286004996, 772000003, 286005012, 772000000>> :> 162788
 @@ <<286004996, 772000003, 286050000, 772000000>> :> 450040001
 @@ <<286004996, 772000003, 285960000, 772000000>> :> 449960001
 @@ <<286004996, 772000003, 286010000, 772050000>> :> 502467912
 @@ <<286005012, 772000000, 286005000, 772000000>> :> 120000
 @@ <<286005012, 772000000, 286004996, 772000003>> :> 162788
 @@ <<286005012, 772000000, 286005012, 772000000>> :> 0
 @@ <<286005012, 772000000, 286050000, 772000000>> :> 449880000
 @@ <<286005012, 772000000, 285960000, 772000000>> :> 450120000
 @@ <<286005012, 772000000, 286010000, 772050000>> :> 502481855
 @@ <<286050000, 772000000, 286005000, 772000000>> :> 450000000
 @@ <<286050000, 772000000, 286004996, 772000003>> :> 450040001
 @@ <<286050000, 772000000, 286005012, 772000000>> :> 449880000
 @@ <<286050000, 772000000, 286050000, 772000000>> :> 0
 @@ <<286050000, 772000000, 285960000, 772000000>> :> 900000000
 @@ <<286050000, 772000000, 286010000, 772050000>> :> 640312424
 @@ <<285960000, 772000000, 286005000, 772000000>> :> 450000000
 @@ <<285960000, 772000000, 286004996, 772000003>> :> 449960001
 @@ <<285960000, 772000000, 286005012, 772000000>> :> 450120000
 @@ <<285960000, 772000000, 286050000, 772000000>> :> 900000000
 @@ <<285960000, 772000000, 285960000, 772000000>> :> 0
 @@ <<285960000, 772000000, 286010000, 772050000>> :> 707106781
 @@ <<286010000, 772050000, 286005000, 772000000>> :> 502493781
 @@ <<286010000, 772050000, 286004996, 772000003>> :> 502467912
 @@ <<286010000, 772050000, 286005012, 772000000>> :> 502481855
 @@ <<286010000, 772050000, 286050000, 772000000>> :> 640312424
 @@ <<286010000, 772050000, 285960000, 772000000>> :> 707106781
 @@ <<286010000, 772050000, 286010000, 772050000>> :> 0

euclidean_distance(vlat, vlng, lat, lng) == EuclidTable[<<vlat, vlng, lat, lng>>]

-----------------------------------------------------------------------------
(* Geographic router: sort_by_gps_route *)

\* b.get('latitude') and b.get('longitude')
has_gps(b) == Truthy(b.latitude) /\ Truthy(b.longitude)

valid_gps_bills(bs) == SelectSeq(bs, has_gps)

\* The bills whose latitude or longitude is None.
no_gps_bills_none_only(bs) ==
    SelectSeq(bs, LAMBDA b : b.latitude = None \/ b.longitude = None)

no_gps_bills(bs) == SelectSeq(bs, LAMBDA b : ~has_gps(b))

\* key = (round(bill['latitude'], 6), round(bill['longitude'], 6))
location_key(b) == <<round6(b.latitude), round6(b.longitude)>>

\* location_groups[key]: the bills of one location, in input order.
location_group(valid, key) == SelectSeq(valid, LAMBDA b : location_key(b) = key)

\* list(location_groups.keys()): the distinct keys in order of first appearance.
RECURSIVE unique_locations_from(_, _)
unique_locations_from(valid, seen) ==
    IF valid = <<>> THEN seen
    ELSE IF location_key(Head(valid)) \in Range(seen)
         THEN unique_locations_from(Tail(valid), seen)
         ELSE unique_locations_from(Tail(valid), Append(seen, location_key(Head(valid))))

\* The key of every bill, repeated ones included.
unique_locations_repeating(valid) == [i \in 1..Len(valid) |-> location_key(valid[i])]

unique_locations(valid) == unique_locations_from(valid, <<>>)

\* score = loc[0] - loc[1] * 0.1, times ten, in units of 1e-6 degree.  On the
\* sample locations the integers compare (>, =) exactly as the doubles do.
location_score(loc) == 10 * loc[1] - loc[2]

\* The loop over enumerate(unique_locations): the first index whose score is
\* strictly greater than every score before it and not less than any after.
start_idx(locs) ==
    CHOOSE i \in 1..Len(locs) :
        /\ \A j \in 1..Len(locs) : location_score(locs[j]) <= location_score(locs[i])
        /\ \A j \in 1..(i - 1) : location_score(locs[j]) < location_score(locs[i])

\* The last index of remaining_locations at minimal distance from last_loc.
nearest_idx_last_wins(last_loc, remaining) ==
    CHOOSE i \in 1..Len(remaining) :
        LET d(k) == haversine_distance(last_loc[1], last_loc[2], remaining[k][1], remaining[k][2])
        IN  /\ \A j \in 1..Len(remaining) : d(i) <= d(j)
            /\ \A j \in (i + 1)..Len(remaining) : d(i) < d(j)

\* The first index of remaining_locations at minimal distance from last_loc.
nearest_idx(last_loc, remaining) ==
    CHOOSE i \in 1..Len(remaining) :
        LET d(k) == haversine_distance(last_loc[1], last_loc[2], remaining[k][1], remaining[k][2])
        IN  /\ \A j \in 1..Len(remaining) : d(i) <= d(j)
            /\ \A j \in 1..(i - 1) : d(i) < d(j)

remove_at(s, i) == SubSeq(s, 1, i - 1) \o SubSeq(s, i + 1, Len(s))

\* while remaining_locations: sorted_locations.append(remaining_locations.pop(nearest_idx))
RECURSIVE nearest_neighbour_tour(_, _)
nearest_neighbour_tour(sorted_locations, remaining_locations) ==
    IF remaining_locations = <<>> THEN sorted_locations
    ELSE LET i == nearest_idx(sorted_locations[Len(sorted_locations)], remaining_locations)
         IN  nearest_neighbour_tour(Append(sorted_locations, remaining_locations[i]),
                                    remove_at(remaining_locations, i))

sorted_locations(locs) ==
    LET s == start_idx(locs)
    IN  nearest_neighbour_tour(<<locs[s]>>, remove_at(locs, s))

\* The expansion with one bill taken from every location.
RECURSIVE expand_locations_one_each(_, _)
expand_locations_one_each(valid, locs) ==
    IF locs = <<>> THEN <<>>
    ELSE <<location_group(valid, Head(locs))[1]>> \o expand_locations_one_each(valid, Tail(locs))

\* for loc in sorted_locations: sorted_bills.extend(location_groups[loc])
RECURSIVE expand_locations(_, _)
expand_locations(valid, locs) ==
    IF locs = <<>> THEN <<>>
    ELSE location_group(valid, Head(locs)) \o expand_locations(valid, Tail(locs))

\* The router with the input returned as it came when all located bills share
\* one location.
sort_by_gps_route_single_unsorted(bs) ==
    IF bs = <<>> THEN bs
    ELSE LET valid == valid_gps_bills(bs)
             no_gps == no_gps_bills(bs)
             locs == unique_locations(valid)
         IN  IF valid = <<>> THEN bs
             ELSE IF Len(locs) <= 1 THEN bs
             ELSE expand_locations(valid, sorted_locations(locs)) \o no_gps

\* The router returning only the located bills when all of them share one
\* location.
sort_by_gps_route_single_located_only(bs) ==
    IF bs = <<>> THEN bs
    ELSE LET valid == valid_gps_bills(bs)
             no_gps == no_gps_bills(bs)
             locs == unique_locations(valid)
         IN  IF valid = <<>> THEN bs
             ELSE IF Len(locs) <= 1 THEN valid
             ELSE expand_locations(valid, sorted_locations(locs)) \o no_gps

sort_by_gps_route(bs) ==
    IF bs = <<>> THEN bs
    ELSE LET valid == valid_gps_bills(bs)
             no_gps == no_gps_bills(bs)
             locs == unique_locations(valid)
         IN  IF valid = <<>> THEN bs
             ELSE IF Len(locs) <= 1 THEN valid \o no_gps
             ELSE expand_locations(valid, sorted_locations(locs)) \o no_gps

-----------------------------------------------------------------------------
(* The router of routers/bills.py: nearest neighbour over the bills *)

\* haversine_distance of routers/bills.py at the raw sample coordinates, in
\* micrometres: evaluated in double precision and rounded to an integer.  On
\* these points the integers compare (<, =) exactly as the doubles do.
LegacyHaversineTable ==
    <<286005000, 772000000, 286005000, 772000000>> :> 0
 @@ <<286005000, 772000000, 286004996, 772000003>> :> 53255
 @@ <<286005000, 772000000, 286050000, 772000000>> :> 500377170
 @@ <<286005000, 772000000, 285960000, 772000000>> :> 500377170
 @@ <<286005000, 772000000, 286010000, 772025000>> :> 250318758
 @@ <<286005000, 772000000, 286010000, 771975000>> :> 250318758
 @@ <<286004996, 772000003, 286005000, 772000000>> :> 53255
 @@ <<286004996, 772000003, 286004996, 772000003>> :> 0
 @@ <<286004996, 772000003, 286050000, 772000000>> :> 500421649
 @@ <<286004996, 772000003, 285960000, 772000000>> :> 500332693
 @@ <<286004996, 772000003, 286010000, 772025000>> :> 250300085
 @@ <<286004996, 772000003, 286010000, 771975000>> :> 250357196
 @@ <<286050000, 772000000, 286005000, 772000000>> :> 500377170
 @@ <<286050000, 772000000, 286004996, 772000003>> :> 500421649
 @@ <<286050000, 772000000, 286050000, 772000000>> :> 0
 @@ <<286050000, 772000000, 285960000, 772000000>> :> 1000754340
 @@ <<286050000, 772000000, 286010000, 772025000>> :> 507340949
 @@ <<286050000, 772000000, 286010000, 771975000>> :> 507340949
 @@ <<285960000, 772000000, 286005000, 772000000>> :> 500377170
 @@ <<285960000, 772000000, 286004996, 772000003>> :> 500332693
 @@ <<285960000, 772000000, 286050000, 772000000>> :> 1000754340
 @@ <<285960000, 772000000, 285960000, 772000000>> :> 0
 @@ <<285960000, 772000000, 286010000, 772025000>> :> 607189218
 @@ <<285960000, 772000000, 286010000, 771975000>> :> 607189218
 @@ <<286010000, 772025000, 286005000, 772000000>> :> 250318758
 @@ <<286010000, 772025000, 286004996, 772000003>> :> 250300085
 @@ <<286010000, 772025000, 286050000, 772000000>> :> 507340949
 @@ <<286010000, 772025000, 285960000, 772000000>> :> 607189218
 @@ <<286010000, 772025000, 286010000, 772025000>> :> 0
 @@ <<286010000, 772025000, 286010000, 771975000>> :> 488131618
 @@ <<286010000, 771975000, 286005000, 772000000>> :> 250318758
 @@ <<286010000, 771975000, 286004996, 772000003>> :> 250357196
 @@ <<286010000, 771975000, 286050000, 772000000>> :> 507340949
 @@ <<286010000, 771975000, 285960000, 772000000>> :> 607189218
 @@ <<286010000, 771975000, 286010000, 772025000>> :> 488131618
 @@ <<286010000, 771975000, 286010000, 771975000>> :> 0

legacy_haversine_distance(lat1, lon1, lat2, lon2) == LegacyHaversineTable[<<lat1, lon1, lat2, lon2>>]

\* The first index of remaining at minimal distance from the last bill.
legacy_nearest_idx(last, remaining) ==
    CHOOSE i \in 1..Len(remaining) :
        LET d(k) == legacy_haversine_distance(last.latitude, last.longitude,
                                              remaining[k].latitude, remaining[k].longitude)
        IN  /\ \A j \in 1..Len(remaining) : d(i) <= d(j)
            /\ \A j \in 1..(i - 1) : d(i) < d(j)

\* while remaining: sorted_bills.append(remaining.pop(nearest_idx))
RECURSIVE legacy_tour(_, _)
legacy_tour(sorted_bills, remaining) ==
    IF remaining = <<>> THEN sorted_bills
    ELSE LET i == legacy_nearest_idx(sorted_bills[Len(sorted_bills)], remaining)
         IN  legacy_tour(Append(sorted_bills, remaining[i]), remove_at(remaining, i))

\* sort_by_gps_route of routers/bills.py, lines 80-114.
legacy_sort_by_gps_route(bs) ==
    IF bs = <<>> THEN bs
    ELSE LET valid == valid_gps_bills(bs)
             no_gps == no_gps_bills(bs)
         IN  IF valid = <<>> THEN bs
             ELSE legacy_tour(<<valid[1]>>, Tail(valid)) \o no_gps

-----------------------------------------------------------------------------
(* Handlers are functions from the state (and the request) to the state.   *)

State ==
    [bills |-> bills, batches |-> batches, users |-> users, files |-> files,
     written |-> written, req |-> req, resp |-> resp, now |-> now, uuids |-> uuids]

\* The documents of db.users that the split by employees reads: id and name.
\* No handler of this model writes the collection.
Employees ==
    <<[id |-> "e1", name |-> <<"A", "s", "h", "a">>],
      [id |-> "e2", name |-> <<"R", ".", " ", "D", "a", "s">>],
      [id |-> "e3", name |-> <<"R", "a", "j">>]>>

\* Empty bills and batches collections and upload directory.
EmptyState ==
    [bills |-> <<>>, batches |-> <<>>, users |-> Employees, files |-> <<>>, written |-> <<>>,
     req |-> [op |-> "none"], resp |-> [op |-> "none"], now |-> 0, uuids |-> 0]

Is(st) ==
    /\ bills = st.bills
    /\ batches = st.batches
    /\ users = st.users
    /\ files = st.files
    /\ written = st.written
    /\ req = st.req
    /\ resp = st.resp
    /\ now = st.now
    /\ uuids = st.uuids

Becomes(st) ==
    /\ bills' = st.bills
    /\ batches' = st.batches
    /\ users' = st.users
    /\ files' = st.files
    /\ written' = st.written
    /\ req' = st.req
    /\ resp' = st.resp
    /\ now' = st.now
    /\ uuids' = st.uuids

\* A file written under UPLOAD_DIR: a new name is added, an old one replaced.
write_file(fs, name, doc) ==
    [n \in DOMAIN fs \cup {name} |-> IF n = name THEN doc ELSE fs[n]]

\* str.upper() on the ASCII letters.
LowerCase ==
    <<"a", "b", "c", "d", "e", "f", "g", "h", "i", "j", "k", "l", "m",
      "n", "o", "p", "q", "r", "s", "t", "u", "v", "w", "x", "y", "z">>

UpperCase ==
    <<"A", "B", "C", "D", "E", "F", "G", "H", "I", "J", "K", "L", "M",
      "N", "O", "P", "Q", "R", "S", "T", "U", "V", "W", "X", "Y", "Z">>

upper_char(c) ==
    IF \E k \in 1..26 : LowerCase[k] = c
    THEN UpperCase[CHOOSE k \in 1..26 : LowerCase[k] = c]
    ELSE c

upper(s) == [i \in 1..Len(s) |-> upper_char(s[i])]

\* {"$regex": colony, "$options": "i"} for a pattern of plain letters: the
\* pattern occurs somewhere in the value, letter case ignored.
regex_search_i(pattern, value) ==
    \E k \in 0..(Len(value) - Len(pattern)) :
        upper(SubSeq(value, k + 1, k + Len(pattern))) = upper(pattern)

\* A colony parameter that is None or the empty string.
NoColony == <<>>

\* if batch_id and batch_id.strip(): query["batch_id"] = batch_id
\* if colony and colony.strip(): query["colony"] = {"$regex": colony, "$options": "i"}
matches_query(b, batch_id, colony) ==
    /\ batch_id # None => b.batch_id = batch_id
    /\ strip(colony) # <<>> => regex_search_i(colony, b.colony)

\* cursor.sort(field, 1): ascending, ties in the order of the input.
RECURSIVE insert_sorted(_, _, _)
insert_sorted(sorted, b, field) ==
    IF sorted = <<>> THEN <<b>>
    ELSE IF sorted[Len(sorted)][field] <= b[field] THEN Append(sorted, b)
    ELSE Append(insert_sorted(SubSeq(sorted, 1, Len(sorted) - 1), b, field), sorted[Len(sorted)])

RECURSIVE sort_by(_, _)
sort_by(bs, field) ==
    IF bs = <<>> THEN <<>>
    ELSE insert_sorted(sort_by(SubSeq(bs, 1, Len(bs) - 1), field), bs[Len(bs)], field)

\* The matching bills read back with the highest serial_number first.
find_bills_serial_descending(bs, batch_id, colony) ==
    LET asc == sort_by(SelectSeq(bs, LAMBDA b : matches_query(b, batch_id, colony)), "serial_number")
    IN  [i \in 1..Len(asc) |-> asc[Len(asc) + 1 - i]]

\* db.bills.find(query): the matching bills in the order of their insertion.
find_bills(bs, batch_id, colony) == SelectSeq(bs, LAMBDA b : matches_query(b, batch_id, colony))

-----------------------------------------------------------------------------
(* Extraction of the serial: extract_bill_sr_no_from_page, extract_bill_data *)

\* A span of page.get_text("dict"): its text and the left, top and right
\* edge of its bbox (bbox[0], bbox[1], bbox[2]) in layout units.
span_of(text, x0, y, x1) == [text |-> text, x0 |-> x0, y |-> y, x1 |-> x1]

\* The characters \s matches in the sample texts.
Whitespace == {" ", "\n"}

\* str.lower() compared through upper(): 'billsrno' in text or 'bill sr no' in text.
is_label_span(text) ==
    \/ regex_search_i(<<"b", "i", "l", "l", "s", "r", "n", "o">>, strip(text))
    \/ regex_search_i(<<"b", "i", "l", "l", " ", "s", "r", " ", "n", "o">>, strip(text))

\* The decimal digits at the end of s.
RECURSIVE trailing_digits(_)
trailing_digits(s) ==
    IF s = <<>> \/ s[Len(s)] \notin DigitChars THEN <<>>
    ELSE Append(trailing_digits(SubSeq(s, 1, Len(s) - 1)), s[Len(s)])

\* re.search(r'[:\s]+(\d+)\s*$', full_text): the digits at the end of the
\* text, blanks after them aside, when a colon or a blank stands before
\* them; <<>> when the pattern does not match.
trailing_number(full_text) ==
    LET t == rstrip(full_text)
        digits == trailing_digits(t)
        before == Len(t) - Len(digits)
    IN  IF digits # <<>> /\ before >= 1 /\ t[before] \in Whitespace \cup {":"}
        THEN digits
        ELSE <<>>

abs(x) == IF x < 0 THEN -x ELSE x

\* The vertical tolerance and the horizontal allowance of the search for a
\* number near the label (line 2572 and line 2574).
VerticalTolerance == 20

LeftAllowance == 50

\* Lines 2562-2575: the digit spans less than 20 units above or below the
\* label whose left edge is not more than 50 units left of the label's
\* right edge, in span order.
serial_candidates(spans, billsr_y, billsr_x) ==
    SelectSeq(spans, LAMBDA s : /\ isdigit(strip(s.text))
                                /\ abs(s.y - billsr_y) < VerticalTolerance
                                /\ s.x0 >= billsr_x - LeftAllowance)

\* candidates.sort(key=lambda x: x[0]); candidates[0][1]: the first
\* candidate at minimal vertical distance.
closest_candidate(candidates, billsr_y) ==
    LET i == CHOOSE i \in 1..Len(candidates) :
                 /\ \A j \in 1..Len(candidates) :
                        abs(candidates[i].y - billsr_y) <= abs(candidates[j].y - billsr_y)
                 /\ \A j \in 1..(i - 1) :
                        abs(candidates[i].y - billsr_y) < abs(candidates[j].y - billsr_y)
    IN  strip(candidates[i].text)

extract_bill_sr_no_from_page(spans) ==
    LET labels == {i \in 1..Len(spans) : is_label_span(spans[i].text)}
        numbered == {i \in labels : trailing_number(spans[i].text) # <<>>}
    IN  IF numbered # {}
        THEN \* return match.group(1) at the first label span that ends in a number
             trailing_number(spans[CHOOSE i \in numbered : \A j \in numbered : i <= j].text)
        ELSE IF labels = {} THEN <<>>
        ELSE \* billsr_y, billsr_x are those of the last label span
             LET last == spans[CHOOSE i \in labels : \A j \in labels : j <= i]
                 candidates == serial_candidates(spans, last.y, last.x1)
             IN  IF candidates # <<>> THEN closest_candidate(candidates, last.y) ELSE <<>>

\* Elements of the label patterns: a letter matched in either case, an
\* optional character, and a possibly empty run of characters of a class.
Lit(c) == [kind |-> "lit", c |-> c, set |-> {}]

Opt(c) == [kind |-> "opt", c |-> c, set |-> {}]

Skip(set) == [kind |-> "skip", c |-> "", set |-> set]

Literal(s) == [i \in 1..Len(s) |-> Lit(s[i])]

\* The three patterns of the fallback up to their group (\d+).
SerialPatterns ==
    <<Literal(<<"B", "i", "l", "l", "S", "r", "N", "o">>)
          \o <<Opt("."), Skip(Whitespace), Skip(Whitespace \cup {":"}), Skip(Whitespace)>>,
      Literal(<<"B", "i", "l", "l">>) \o <<Skip(Whitespace)>> \o Literal(<<"S", "r">>)
          \o <<Skip(Whitespace)>> \o Literal(<<"N", "o">>)
          \o <<Opt("."), Skip(Whitespace), Skip(Whitespace \cup {":"})>>,
      Literal(<<"B", "i", "l", "l">>) \o <<Skip(Whitespace)>>
          \o Literal(<<"S", "e", "r", "i", "a", "l">>)
          \o <<Skip(Whitespace)>> \o Literal(<<"N", "o">>)
          \o <<Opt("."), Skip(Whitespace), Skip(Whitespace \cup {":"})>>>>

\* The position after a match of the elements at pos, 0 when they do not
\* match there.  What follows a run is another run or accepts no character
\* of its class, so the longest run is the only one to try.
RECURSIVE match_from(_, _, _)
match_from(text, pos, pattern) ==
    IF pattern = <<>> THEN pos
    ELSE LET el == Head(pattern)
             here == pos <= Len(text)
         IN  IF el.kind = "lit"
             THEN IF here /\ upper_char(text[pos]) = upper_char(el.c)
                  THEN match_from(text, pos + 1, Tail(pattern)) ELSE 0
             ELSE IF el.kind = "opt"
             THEN IF here /\ text[pos] = el.c
                  THEN match_from(text, pos + 1, Tail(pattern))
                  ELSE match_from(text, pos, Tail(pattern))
             ELSE IF here /\ text[pos] \in el.set
                  THEN match_from(text, pos + 1, pattern)
                  ELSE match_from(text, pos, Tail(pattern))

\* The decimal digits of text from pos on.
RECURSIVE leading_digits(_, _)
leading_digits(text, pos) ==
    IF pos > Len(text) \/ text[pos] \notin DigitChars THEN <<>>
    ELSE <<text[pos]>> \o leading_digits(text, pos + 1)

\* re.search(pattern, text, re.IGNORECASE | re.MULTILINE).group(1) of the
\* leftmost match, <<>> without a match.
re_search_group(pattern, text) ==
    LET matches(s) == match_from(text, s, pattern) # 0
                          /\ leading_digits(text, match_from(text, s, pattern)) # <<>>
    IN  IF \E s \in 1..Len(text) : matches(s)
        THEN LET s == CHOOSE s \in 1..Len(text) : matches(s) /\ \A r \in 1..(s - 1) : ~matches(r)
             IN  leading_digits(text, match_from(text, s, pattern))
        ELSE <<>>

\* find_value: the group of the first pattern that matches, "" otherwise.
RECURSIVE find_value(_, _)
find_value(patterns, text) ==
    IF patterns = <<>> THEN <<>>
    ELSE IF re_search_group(Head(patterns), text) # <<>>
    THEN strip(re_search_group(Head(patterns), text))
    ELSE find_value(Tail(patterns), text)

\* page.get_text(): the text of the spans, one line each.
RECURSIVE page_text(_)
page_text(spans) ==
    IF spans = <<>> THEN <<>>
    ELSE Head(spans).text \o <<"\n">> \o page_text(Tail(spans))

\* extract_bill_data for a page given by its spans; the fields other than
\* bill_sr_no are given as extracted.
extract_bill_data(spans, owner_name, coords, colony) ==
    LET from_page == extract_bill_sr_no_from_page(spans)
        bill_sr_no == IF from_page # <<>> THEN from_page
                      ELSE find_value(SerialPatterns, page_text(spans))
    IN  [owner_name |-> owner_name, bill_sr_no |-> bill_sr_no,
         latitude |-> coords[1], longitude |-> coords[2], colony |-> colony,
         spans |-> spans]

-----------------------------------------------------------------------------
(* upload-pdf *)

invalid_values ==
    {<<"N", "A">>, <<"N", "/", "A">>, <<"N", ".", "A", ".">>,
     <<"N", "O", "T", " ", "A", "V", "A", "I", "L", "A", "B", "L", "E">>,
     <<"N", "I", "L">>, <<"N", "O", "N", "E">>, <<"-">>, <<"-", "-">>, <<>>}

\* The check without the conversion to upper case.
is_valid_owner_name_case_sensitive(name) ==
    IF name = <<>> THEN FALSE
    ELSE strip(name) \notin invalid_values /\ Len(strip(name)) > 0

is_valid_owner_name(name) ==
    IF name = <<>> THEN FALSE
    ELSE upper(strip(name)) \notin invalid_values /\ Len(strip(name)) > 0

\* The record of one accepted page with "NA" as the label of a missing
\* serial.
new_bill_na_label(page, page_num, id, batch_id) ==
    LET pdf_serial == strip(page.bill_sr_no)
        valid == pdf_serial # <<>> /\ isdigit(pdf_serial)
    IN  [id |-> id,
         batch_id |-> batch_id,
         page_number |-> page_num,
         bill_sr_no |-> IF valid THEN pdf_serial ELSE <<"N", "A">>,
         serial_number |-> IF valid THEN int(pdf_serial) ELSE 0,
         serial_na |-> ~valid,
         latitude |-> page.latitude,
         longitude |-> page.longitude,
         colony |-> page.colony,
         gps_arranged |-> FALSE,
         skipped_from_order |-> FALSE]

\* The record of one accepted page when only a positive number counts as a
\* valid serial.
new_bill_positive_only(page, page_num, id, batch_id) ==
    LET pdf_serial == strip(page.bill_sr_no)
        valid == pdf_serial # <<>> /\ isdigit(pdf_serial) /\ int(pdf_serial) > 0
    IN  [id |-> id,
         batch_id |-> batch_id,
         page_number |-> page_num,
         bill_sr_no |-> IF valid THEN pdf_serial ELSE <<"N", "0">>,
         serial_number |-> IF valid THEN int(pdf_serial) ELSE 0,
         serial_na |-> ~valid,
         latitude |-> page.latitude,
         longitude |-> page.longitude,
         colony |-> page.colony,
         gps_arranged |-> FALSE,
         skipped_from_order |-> FALSE]

\* Lines 2792-2810: the record of one accepted page.
new_bill(page, page_num, id, batch_id) ==
    LET pdf_serial == strip(page.bill_sr_no)
        valid == pdf_serial # <<>> /\ isdigit(pdf_serial)
    IN  [id |-> id,
         batch_id |-> batch_id,
         page_number |-> page_num,
         bill_sr_no |-> IF valid THEN pdf_serial ELSE <<"N", "0">>,
         serial_number |-> IF valid THEN int(pdf_serial) ELSE 0,
         serial_na |-> ~valid,
         latitude |-> page.latitude,
         longitude |-> page.longitude,
         colony |-> page.colony,
         gps_arranged |-> FALSE,
         skipped_from_order |-> FALSE]

\* First pass: one record per page whose owner name is valid; ids are fresh.
RECURSIVE first_pass(_, _, _, _)
first_pass(pages, page_num, batch_id, next_uuid) ==
    IF page_num > Len(pages) THEN <<>>
    ELSE IF ~is_valid_owner_name(pages[page_num].owner_name)
         THEN first_pass(pages, page_num + 1, batch_id, next_uuid)
         ELSE <<new_bill(pages[page_num], page_num, next_uuid, batch_id)>>
              \o first_pass(pages, page_num + 1, batch_id, next_uuid + 1)

\* The first accepted page whose serial passes isdigit() and makes int()
\* raise, 0 when there is none.
raising_page(pages) ==
    LET raises(i) == /\ is_valid_owner_name(pages[i].owner_name)
                     /\ isdigit(strip(pages[i].bill_sr_no))
                     /\ int_raises(strip(pages[i].bill_sr_no))
    IN  IF \E i \in 1..Len(pages) : raises(i)
        THEN CHOOSE i \in 1..Len(pages) : raises(i) /\ \A j \in 1..(i - 1) : ~raises(j)
        ELSE 0

skipped_count(pages) ==
    Cardinality({i \in 1..Len(pages) : ~is_valid_owner_name(pages[i].owner_name)})

valid_serials_with_gps(bs) == SelectSeq(bs, LAMBDA b : ~b.serial_na /\ has_gps(b))

\* The serial of the last entry at minimal distance from the bill.
nearest_serial_last_wins(bill, vs) ==
    LET d(k) == euclidean_distance(vs[k].latitude, vs[k].longitude, bill.latitude, bill.longitude)
        i == CHOOSE i \in 1..Len(vs) :
                 /\ \A j \in 1..Len(vs) : d(i) <= d(j)
                 /\ \A j \in (i + 1)..Len(vs) : d(i) < d(j)
    IN  vs[i].serial_number

\* The loop over valid_serials_with_gps: the serial of the first entry at
\* minimal distance from the bill.
nearest_serial(bill, vs) ==
    LET d(k) == euclidean_distance(vs[k].latitude, vs[k].longitude, bill.latitude, bill.longitude)
        i == CHOOSE i \in 1..Len(vs) :
                 /\ \A j \in 1..Len(vs) : d(i) <= d(j)
                 /\ \A j \in 1..(i - 1) : d(i) < d(j)
    IN  vs[i].serial_number

\* Second pass: relabel the bills without a serial.
second_pass(bs) ==
    LET vs == valid_serials_with_gps(bs)
    IN  IF vs = <<>> THEN bs
        ELSE [i \in 1..Len(bs) |->
                 IF bs[i].serial_na /\ has_gps(bs[i])
                 THEN [bs[i] EXCEPT !.bill_sr_no = <<"N">> \o str(nearest_serial(bs[i], vs))]
                 ELSE IF bs[i].serial_na
                 THEN [bs[i] EXCEPT !.bill_sr_no = <<"N">> \o str(vs[1].serial_number)]
                 ELSE bs[i]]

pdf_name(timestamp) == <<"bills", timestamp>>

upload_pdf_bills(st, pages) ==
    LET pdf_filename == pdf_name(st.now)
        batch_id == st.uuids + 1
        new == second_pass(first_pass(pages, 1, batch_id, batch_id + 1))
        batch_doc == [id |-> batch_id, pdf_filename |-> pdf_filename, total_records |-> Len(new)]
        raising == raising_page(pages)
    IN  IF pages = <<>> \/ raising > 0
        THEN \* fitz.open() raises on content that is no PDF (no page at all), int()
             \* on the raising page.  except Exception: HTTP 500; the file is on
             \* disk, nothing is inserted.
             [st EXCEPT
                !.files = write_file(st.files, pdf_filename, [source |-> batch_id, page_count |-> Len(pages)]),
                !.uuids = batch_id + Cardinality({i \in 1..raising : is_valid_owner_name(pages[i].owner_name)}),
                !.written = <<>>,
                !.req = [op |-> "upload-pdf", pages |-> pages],
                !.resp = [op |-> "upload-pdf", status |-> 500]]
        ELSE
        [st EXCEPT
           !.files = write_file(st.files, pdf_filename, [source |-> batch_id, page_count |-> Len(pages)]),
           !.bills = st.bills \o new,
           !.batches = Append(st.batches, batch_doc),
           !.uuids = batch_id + Len(new),
           !.written = <<>>,
           !.req = [op |-> "upload-pdf", pages |-> pages],
           !.resp = [op |-> "upload-pdf", status |-> 200, batch_id |-> batch_id,
                     total_bills |-> Len(new), skipped_bills |-> skipped_count(pages),
                     na_serial_bills |-> Len(SelectSeq(new, LAMBDA b : b.serial_na))]]

-----------------------------------------------------------------------------
(* GET /admin/bills and arrange-by-route *)

\* The default of the limit parameter.
DefaultLimit == 50

\* seq[start:start + limit] of Python, start counted from 0.
slice(s, start, limit) == SubSeq(s, start + 1, Min(start + limit, Len(s)))

index_of(s, id) == CHOOSE i \in 1..Len(s) : s[i].id = id

\* for i, bill in enumerate(sorted_bills): bill["route_serial"] = i + 1
with_route_serial(s) == [i \in 1..Len(s) |-> [route_serial |-> i] @@ s[i]]

list_bills(st, batch_id, colony, sorted_by_route, page, limit) ==
    LET all_bills == find_bills(st.bills, batch_id, colony)
        total == Len(all_bills)
        listed == IF sorted_by_route
                  THEN slice(with_route_serial(sort_by_gps_route(all_bills)), (page - 1) * limit, limit)
                  ELSE slice(sort_by(all_bills, "page_number"), (page - 1) * limit, limit)
    IN  [st EXCEPT
           !.written = <<>>,
           !.req = [op |-> "list-bills", batch_id |-> batch_id, colony |-> colony,
                    sorted_by_route |-> sorted_by_route, page |-> page, limit |-> limit],
           !.resp = [op |-> "list-bills", status |-> 200, bills |-> listed, total |-> total,
                     page |-> page, pages |-> (total + limit - 1) \div limit]]

\* The updates with the skipped bills numbered after the routed ones.
arranged_store_numbering_skipped(bs, sorted_bills, na_bills) ==
    [i \in 1..Len(bs) |->
        IF \E k \in 1..Len(sorted_bills) : sorted_bills[k].id = bs[i].id
        THEN [bs[i] EXCEPT !.serial_number = index_of(sorted_bills, bs[i].id),
                           !.gps_arranged = TRUE]
        ELSE IF \E k \in 1..Len(na_bills) : na_bills[k].id = bs[i].id
        THEN [bs[i] EXCEPT !.serial_number = Len(sorted_bills) + index_of(na_bills, bs[i].id),
                           !.gps_arranged = FALSE, !.skipped_from_order = TRUE]
        ELSE bs[i]]

\* The updates with the position counted from 0.
arranged_store_zero_based(bs, sorted_bills, na_bills) ==
    [i \in 1..Len(bs) |->
        IF \E k \in 1..Len(sorted_bills) : sorted_bills[k].id = bs[i].id
        THEN [bs[i] EXCEPT !.serial_number = index_of(sorted_bills, bs[i].id) - 1,
                           !.gps_arranged = TRUE]
        ELSE IF \E k \in 1..Len(na_bills) : na_bills[k].id = bs[i].id
        THEN [bs[i] EXCEPT !.gps_arranged = FALSE, !.skipped_from_order = TRUE]
        ELSE bs[i]]

\* Lines 3012-3024: the updates by id of the routed and of the skipped bills.
arranged_store(bs, sorted_bills, na_bills) ==
    [i \in 1..Len(bs) |->
        IF \E k \in 1..Len(sorted_bills) : sorted_bills[k].id = bs[i].id
        THEN [bs[i] EXCEPT !.serial_number = index_of(sorted_bills, bs[i].id),
                           !.gps_arranged = TRUE]
        ELSE IF \E k \in 1..Len(na_bills) : na_bills[k].id = bs[i].id
        THEN [bs[i] EXCEPT !.gps_arranged = FALSE, !.skipped_from_order = TRUE]
        ELSE bs[i]]

\* arrange-by-route reporting the size of the whole selection as arranged.
arrange_bills_by_route_counting_selection(st, batch_id, colony) ==
    LET all_bills == find_bills(st.bills, batch_id, colony)
        valid_bills == SelectSeq(all_bills, LAMBDA b : ~b.serial_na)
        na_bills == SelectSeq(all_bills, LAMBDA b : b.serial_na)
        sorted_bills == sort_by_gps_route(valid_bills)
        request == [op |-> "arrange-by-route", batch_id |-> batch_id, colony |-> colony]
    IN  IF all_bills = <<>>
        THEN [st EXCEPT !.written = <<>>, !.req = request,
                        !.resp = [op |-> "arrange-by-route", status |-> 404]]
        ELSE IF valid_bills = <<>>
        THEN [st EXCEPT !.written = <<>>, !.req = request,
                        !.resp = [op |-> "arrange-by-route", status |-> 400]]
        ELSE [st EXCEPT
                !.bills = arranged_store(st.bills, sorted_bills, na_bills),
                !.written = <<>>,
                !.req = request,
                !.resp = [op |-> "arrange-by-route", status |-> 200,
                          total_arranged |-> Len(all_bills), skipped_na |-> Len(na_bills)]]

arrange_bills_by_route(st, batch_id, colony) ==
    LET all_bills == find_bills(st.bills, batch_id, colony)
        valid_bills == SelectSeq(all_bills, LAMBDA b : ~b.serial_na)
        na_bills == SelectSeq(all_bills, LAMBDA b : b.serial_na)
        sorted_bills == sort_by_gps_route(valid_bills)
        request == [op |-> "arrange-by-route", batch_id |-> batch_id, colony |-> colony]
    IN  IF all_bills = <<>>
        THEN [st EXCEPT !.written = <<>>, !.req = request,
                        !.resp = [op |-> "arrange-by-route", status |-> 404]]
        ELSE IF valid_bills = <<>>
        THEN [st EXCEPT !.written = <<>>, !.req = request,
                        !.resp = [op |-> "arrange-by-route", status |-> 400]]
        ELSE [st EXCEPT
                !.bills = arranged_store(st.bills, sorted_bills, na_bills),
                !.written = <<>>,
                !.req = request,
                !.resp = [op |-> "arrange-by-route", status |-> 200,
                          total_arranged |-> Len(sorted_bills), skipped_na |-> Len(na_bills)]]

-----------------------------------------------------------------------------
(* arrange-by-route of routers/bills.py *)

\* Lines 315-319 of routers/bills.py: update_one by id for every element of
\* sorted_bills in turn, so the last position of an id is the one that stays.
legacy_arranged_store(bs, sorted_bills) ==
    [i \in 1..Len(bs) |->
        LET at == {k \in 1..Len(sorted_bills) : sorted_bills[k].id = bs[i].id}
        IN  IF at = {} THEN bs[i]
            ELSE [route_ordered |-> TRUE]
                     @@ [bs[i] EXCEPT !.serial_number = CHOOSE k \in at : \A j \in at : j <= k]]

legacy_arrange_bills_by_route(st, batch_id, colony) ==
    LET found == find_bills(st.bills, batch_id, colony)
        sorted_bills == legacy_sort_by_gps_route(found)
        request == [op |-> "legacy-arrange-by-route", batch_id |-> batch_id, colony |-> colony]
    IN  IF found = <<>>
        THEN [st EXCEPT !.written = <<>>, !.req = request,
                        !.resp = [op |-> "legacy-arrange-by-route", status |-> 404]]
        ELSE [st EXCEPT
                !.bills = legacy_arranged_store(st.bills, sorted_bills),
                !.written = <<>>,
                !.req = request,
                !.resp = [op |-> "legacy-arrange-by-route", status |-> 200,
                          total_arranged |-> Len(sorted_bills)]]

-----------------------------------------------------------------------------
(* Document composition: generate-pdf, split-by-employee, split-by-employees *)

\* Lines 3054-3060: the batch of the first bill and its file on disk.
find_batch(bs, id) == SelectSeq(bs, LAMBDA b : b.id = id)

source_missing(st, first_bill) ==
    LET found == find_batch(st.batches, first_bill.batch_id)
    IN  found = <<>> \/ found[1].pdf_filename \notin DOMAIN st.files

source_pdf(st, first_bill) == st.files[find_batch(st.batches, first_bill.batch_id)[1].pdf_filename]

\* fitz.open(str(original_pdf_path)) raises on a file that an upload of
\* unreadable content left under this name.
cannot_open(src) == src.page_count = 0

\* page_num = bill.get("page_number", 1) - 1; skipped unless 0 <= page_num < len(src_pdf).
in_range(b, src) == b.page_number - 1 >= 0 /\ b.page_number - 1 < src.page_count

NoStamp == <<>>

\* insert_pdf(src_pdf, from_page=page_num, to_page=page_num): a copy of one
\* source page, identified by the upload that wrote the file and its index.
copied_page(b, src, stamp) ==
    [kind |-> "copy", source |-> src.source, page |-> b.page_number - 1, stamp |-> stamp, bill |-> b.id]

\* One-bill-per-page copy of the in-range bills, unstamped (lines 3071-3078).
copy_pages(bs, src) ==
    LET kept == SelectSeq(bs, LAMBDA b : in_range(b, src))
    IN  [i \in 1..Len(kept) |-> copied_page(kept[i], src, NoStamp)]

\* Lines 3094-3150: the in-range bills rendered as images, num_bills to a page.
raster_pages(bs, src, num_bills) ==
    LET kept == SelectSeq(bs, LAMBDA b : in_range(b, src))
        n == ceil_div(Len(kept), num_bills)
    IN  [p \in 1..n |->
            [kind |-> "raster",
             images |-> [k \in 1..Min(num_bills, Len(kept) - (p - 1) * num_bills) |->
                            [source |-> src.source,
                             page |-> kept[(p - 1) * num_bills + k].page_number - 1,
                             bill |-> kept[(p - 1) * num_bills + k].id]]]]

included_count(bs, src) == Len(SelectSeq(bs, LAMBDA b : in_range(b, src)))

\* colony or 'all'
colony_or_all(colony) == IF colony = NoColony THEN <<"a", "l", "l">> ELSE colony

\* generate-pdf reading any file of the upload directory when the batch of
\* the first bill or its file is gone.
generate_arranged_pdf_any_source(st, batch_id, colony, bills_per_page) ==
    LET found == sort_by(find_bills(st.bills, batch_id, colony), "page_number")
        request == [op |-> "generate-pdf", batch_id |-> batch_id, colony |-> colony,
                    bills_per_page |-> bills_per_page]
        failed(status) == [st EXCEPT !.written = <<>>, !.req = request,
                                     !.resp = [op |-> "generate-pdf", status |-> status]]
    IN  IF found = <<>> \/ DOMAIN st.files = {} THEN failed(404)
        ELSE LET src == IF source_missing(st, found[1])
                        THEN st.files[CHOOSE n \in DOMAIN st.files : TRUE]
                        ELSE source_pdf(st, found[1])
                 kept == SelectSeq(found, LAMBDA b : in_range(b, src))
             IN  IF kept = <<>> THEN failed(500)
                 ELSE [st EXCEPT
                         !.written = <<[filename |-> <<"arranged", colony_or_all(colony), st.now>>,
                                        pages |-> copy_pages(found, src)]>>,
                         !.req = request,
                         !.resp = [op |-> "generate-pdf", status |-> 200,
                                   filename |-> <<"arranged", colony_or_all(colony), st.now>>,
                                   pages_created |-> Len(kept),
                                   included_count |-> Len(kept)]]

generate_arranged_pdf(st, batch_id, colony, bills_per_page) ==
    LET found == sort_by(find_bills(st.bills, batch_id, colony), "page_number")
        request == [op |-> "generate-pdf", batch_id |-> batch_id, colony |-> colony,
                    bills_per_page |-> bills_per_page]
        failed(status) == [st EXCEPT !.written = <<>>, !.req = request,
                                     !.resp = [op |-> "generate-pdf", status |-> status]]
    IN  IF found = <<>> THEN failed(404)
        ELSE IF source_missing(st, found[1]) THEN failed(404)
        ELSE IF cannot_open(source_pdf(st, found[1])) THEN failed(500)
        ELSE LET src == source_pdf(st, found[1])
                 output_filename == <<"arranged", colony_or_all(colony), st.now>>
                 num_bills == IF bills_per_page \in {2, 3} THEN bills_per_page ELSE 3
                 output_pdf == IF bills_per_page = 1 THEN copy_pages(found, src)
                               ELSE raster_pages(found, src, num_bills)
                 included == included_count(found, src)
                 pages_created == IF bills_per_page > 1
                                  THEN (included + bills_per_page - 1) \div bills_per_page
                                  ELSE included
             IN  \* Document.save() raises on a document without pages.
                 IF output_pdf = <<>> THEN failed(500)
                 ELSE [st EXCEPT
                         !.written = <<[filename |-> output_filename, pages |-> output_pdf]>>,
                         !.req = request,
                         !.resp = [op |-> "generate-pdf", status |-> 200,
                                   filename |-> output_filename,
                                   pages_created |-> pages_created,
                                   included_count |-> included]]

\* The upper bound of employee_count (line 3177).
MaxEmployeeCount == 100

\* Lines 3220-3227: the index range [start_idx, end_idx) of every employee
\* reached before start_idx >= total_bills ends the loop.
RECURSIVE employee_ranges_from(_, _, _, _)
employee_ranges_from(emp_idx, employee_count, bills_per_employee, total_bills) ==
    LET first_idx == emp_idx * bills_per_employee
        last_idx == Min(first_idx + bills_per_employee, total_bills)
    IN  IF emp_idx >= employee_count \/ first_idx >= total_bills THEN <<>>
        ELSE <<[start_idx |-> first_idx, end_idx |-> last_idx]>>
             \o employee_ranges_from(emp_idx + 1, employee_count, bills_per_employee, total_bills)

employee_ranges(total_bills, employee_count) ==
    employee_ranges_from(0, employee_count, ceil_div(total_bills, employee_count), total_bills)

\* The slice with end_idx taken as the index of the last bill.
employee_bills_inclusive(bs, range) == SubSeq(bs, range.start_idx + 1, Min(range.end_idx + 1, Len(bs)))

\* bills[start_idx:end_idx]
employee_bills(bs, range) == SubSeq(bs, range.start_idx + 1, range.end_idx)

\* sn_text = f"{bill['serial_number']}", drawn on the copied page.
sn_text(b) == str(b.serial_number)

\* Lines 3234-3259 and 3619-3653: the copy of every in-range bill, stamped.
stamped_pages(bs, src) ==
    LET kept == SelectSeq(bs, LAMBDA b : in_range(b, src))
    IN  [i \in 1..Len(kept) |-> copied_page(kept[i], src, sn_text(kept[i]))]

\* The bundles written before the first one that has no page to save; all of
\* them when every bundle has a page.
saved_prefix(docs) ==
    IF \E i \in 1..Len(docs) : docs[i].pages = <<>>
    THEN SubSeq(docs, 1, (CHOOSE i \in 1..Len(docs) :
                              docs[i].pages = <<>> /\ \A j \in 1..(i - 1) : docs[j].pages # <<>>) - 1)
    ELSE docs

\* f"SN {first} - {last}" and f"SR {first} - {last}" over the serial_number
\* of the first and of the last bill of a bundle.
bill_range(prefix, bs) ==
    prefix \o <<" ">> \o str(bs[1].serial_number) \o <<" ", "-", " ">>
           \o str(bs[Len(bs)].serial_number)

\* The loop over the employees, shared by both split handlers; names[k] is
\* the first part of the k-th output file name.
split_documents(st, found, names, colony) ==
    LET src == source_pdf(st, found[1])
        ranges == employee_ranges(Len(found), Len(names))
    IN  [k \in 1..Len(ranges) |->
            [filename |-> <<names[k], colony_or_all(colony), st.now>>,
             pages |-> stamped_pages(employee_bills(found, ranges[k]), src),
             bills |-> employee_bills(found, ranges[k])]]

\* The saves and the response of a split; infos[k] holds the fields that
\* identify the k-th employee in the response.
split_response(st, found, names, colony, request, infos, prefix) ==
    LET docs == split_documents(st, found, names, colony)
        saved == saved_prefix(docs)
    IN  IF cannot_open(source_pdf(st, found[1]))
        THEN \* fitz.open() raises before the loop over the employees.
             [st EXCEPT !.written = <<>>, !.req = request,
                        !.resp = [op |-> request.op, status |-> 500]]
        ELSE IF saved # docs
        THEN [st EXCEPT
                !.written = [k \in 1..Len(saved) |-> [filename |-> saved[k].filename, pages |-> saved[k].pages]],
                !.req = request,
                !.resp = [op |-> request.op, status |-> 500]]
        ELSE [st EXCEPT
                !.written = [k \in 1..Len(saved) |-> [filename |-> saved[k].filename, pages |-> saved[k].pages]],
                !.req = request,
                !.resp = [op |-> request.op, status |-> 200,
                          total_bills |-> Len(found),
                          bills_per_employee |-> ceil_div(Len(found), Len(names)),
                          files |-> [k \in 1..Len(docs) |->
                                        infos[k] @@
                                        [filename |-> docs[k].filename,
                                         bill_range |-> bill_range(prefix, docs[k].bills),
                                         total_bills |-> Len(docs[k].bills)]]]]

\* The split with a count outside 1..100 moved to the nearest bound.
split_bills_by_employee_clamped(st, batch_id, colony, employee_count) ==
    LET found == sort_by(find_bills(st.bills, batch_id, colony), "serial_number")
        count == IF employee_count < 1 THEN 1 ELSE Min(employee_count, MaxEmployeeCount)
        request == [op |-> "split-by-employee", batch_id |-> batch_id, colony |-> colony,
                    employee_count |-> employee_count]
        failed(status) == [st EXCEPT !.written = <<>>, !.req = request,
                                     !.resp = [op |-> "split-by-employee", status |-> status]]
    IN  IF found = <<>> THEN failed(404)
        ELSE IF source_missing(st, found[1]) THEN failed(404)
        ELSE split_response(st, found,
                            [k \in 1..count |-> <<"employee">> \o str(k)],
                            colony, request,
                            [k \in 1..count |-> [employee_number |-> k]],
                            <<"S", "N">>)

split_bills_by_employee(st, batch_id, colony, employee_count) ==
    LET found == sort_by(find_bills(st.bills, batch_id, colony), "serial_number")
        request == [op |-> "split-by-employee", batch_id |-> batch_id, colony |-> colony,
                    employee_count |-> employee_count]
        failed(status) == [st EXCEPT !.written = <<>>, !.req = request,
                                     !.resp = [op |-> "split-by-employee", status |-> status]]
    IN  IF employee_count < 1 \/ employee_count > MaxEmployeeCount THEN failed(400)
        ELSE IF found = <<>> THEN failed(404)
        ELSE IF source_missing(st, found[1]) THEN failed(404)
        ELSE split_response(st, found,
                            [k \in 1..employee_count |-> <<"employee">> \o str(k)],
                            colony, request,
                            [k \in 1..employee_count |-> [employee_number |-> k]],
                            <<"S", "N">>)

\* The characters of the class [\w\-_] that occur in the sample names.
WordChars ==
    {"A", "D", "R", "a", "h", "j", "s", "_", "-"} \cup DigitChars

\* re.sub(r'[^\w\-_]', '_', name)
emp_name_safe(name) == [i \in 1..Len(name) |-> IF name[i] \in WordChars THEN name[i] ELSE "_"]

\* The users found for the ids, in the order of the ids; an id without a
\* user is dropped, an id given twice is found twice.
RECURSIVE verified_employees(_, _)
verified_employees(us, emp_ids) ==
    IF emp_ids = <<>> THEN <<>>
    ELSE LET emp == SelectSeq(us, LAMBDA u : u.id = Head(emp_ids))
         IN  (IF emp = <<>> THEN <<>> ELSE <<emp[1]>>) \o verified_employees(us, Tail(emp_ids))

\* employee_ids arrives split at the commas; an element is "" when nothing
\* but blanks stood between two commas.
split_bills_by_specific_employees(st, batch_id, colony, employee_ids) ==
    LET emp_ids == SelectSeq(employee_ids, LAMBDA e : e # "")
        employees == verified_employees(st.users, emp_ids)
        found == sort_by(find_bills(st.bills, batch_id, colony), "serial_number")
        request == [op |-> "split-by-employees", batch_id |-> batch_id, colony |-> colony,
                    employee_ids |-> employee_ids]
        failed(status) == [st EXCEPT !.written = <<>>, !.req = request,
                                     !.resp = [op |-> "split-by-employees", status |-> status]]
    IN  IF emp_ids = <<>> THEN failed(400)
        ELSE IF employees = <<>> THEN failed(404)
        ELSE IF found = <<>> THEN failed(404)
        ELSE IF source_missing(st, found[1]) THEN failed(404)
        ELSE split_response(st, found,
                            [k \in 1..Len(employees) |-> emp_name_safe(employees[k].name)],
                            colony, request,
                            [k \in 1..Len(employees) |->
                                [employee_id |-> employees[k].id, employee_name |-> employees[k].name]],
                            <<"S", "R">>)

-----------------------------------------------------------------------------
(* DELETE /admin/batch/{batch_id} *)

\* The batch document is deleted together with the properties and the
\* submissions of the batch; the bills collection is not touched.
delete_batch(st, batch_id) ==
    [st EXCEPT
        !.batches = SelectSeq(st.batches, LAMBDA b : b.id # batch_id),
        !.written = <<>>,
        !.req = [op |-> "delete-batch", batch_id |-> batch_id],
        !.resp = [op |-> "delete-batch", status |-> 200]]

-----------------------------------------------------------------------------
(* DELETE /admin/bills/batch/{batch_id} and POST /admin/bills/delete-all *)

\* The bills of the batch and the batch document are deleted.
delete_bill_batch(st, batch_id) ==
    LET deleted == SelectSeq(st.bills, LAMBDA b : b.batch_id = batch_id)
    IN  [st EXCEPT
            !.bills = SelectSeq(st.bills, LAMBDA b : b.batch_id # batch_id),
            !.batches = SelectSeq(st.batches, LAMBDA b : b.id # batch_id),
            !.written = <<>>,
            !.req = [op |-> "delete-bill-batch", batch_id |-> batch_id],
            !.resp = [op |-> "delete-bill-batch", status |-> 200, deleted_count |-> Len(deleted)]]

\* The matching bills are deleted; the batch document is brought up to date
\* (and deleted when none of its bills is left) only when a batch_id is given.
delete_all_bills(st, batch_id, colony) ==
    LET count == Len(find_bills(st.bills, batch_id, colony))
        kept == SelectSeq(st.bills, LAMBDA b : ~matches_query(b, batch_id, colony))
        remaining == Len(SelectSeq(kept, LAMBDA b : b.batch_id = batch_id))
        request == [op |-> "delete-all", batch_id |-> batch_id, colony |-> colony]
    IN  IF count = 0
        THEN [st EXCEPT !.written = <<>>, !.req = request,
                        !.resp = [op |-> "delete-all", status |-> 200, deleted_count |-> 0]]
        ELSE [st EXCEPT
                !.bills = kept,
                !.batches =
                    IF batch_id = None THEN st.batches
                    ELSE IF remaining = 0 THEN SelectSeq(st.batches, LAMBDA b : b.id # batch_id)
                    ELSE [k \in 1..Len(st.batches) |->
                             IF st.batches[k].id = batch_id
                             THEN [st.batches[k] EXCEPT !.total_records = remaining]
                             ELSE st.batches[k]],
                !.written = <<>>,
                !.req = request,
                !.resp = [op |-> "delete-all", status |-> 200, deleted_count |-> count]]

-----------------------------------------------------------------------------
(* Sample inputs *)

Jane == <<"J", "a", "n", "e">>

WardA == <<"A">>

\* Raw coordinate pairs as extract_bill_data parses them: none, a zero
\* latitude, two readings of one stop (equal after rounding), a stop 0.1 m
\* away, stops 500 m north and south, and a stop to the north-east whose
\* anchor score equals that of the first stop.
NoCoords == <<None, None>>

ZeroLat == <<0, 772000000>>

StopO == <<286005000, 772000000>>

StopO2 == <<286004996, 772000003>>

StopP == <<286005012, 772000000>>

StopN == <<286050000, 772000000>>

StopS == <<285960000, 772000000>>

StopT == <<286010000, 772050000>>

\* Two stops east and west of the meridian of the first stop, mirror images
\* of each other, at equal distance from every stop on that meridian.
StopE == <<286010000, 772025000>>

StopF == <<286010000, 771975000>>

page_of(owner_name, bill_sr_no, coords, colony) ==
    [owner_name |-> owner_name, bill_sr_no |-> bill_sr_no,
     latitude |-> coords[1], longitude |-> coords[2], colony |-> colony]

\* All sequences over S of length 1..n.
SeqsUpTo(S, n) == UNION {[1..k -> S] : k \in 1..n}

-----------------------------------------------------------------------------
(* SpecRouter: the router on every list of up to MaxRouteBills located or  *)
(* unlocated bills of one upload.                                          *)

MaxRouteBills == 4

RouterCoords == {NoCoords, ZeroLat, StopO, StopO2, StopP, StopN, StopS, StopT}

RouterPages == {page_of(Jane, <<"7">>, c, WardA) : c \in RouterCoords}

RouterInit ==
    \E pages \in SeqsUpTo(RouterPages, MaxRouteBills) :
        Is(upload_pdf_bills(EmptyState, pages))

ListByRoute ==
    /\ req.op # "list-bills"
    /\ Becomes(list_bills(State, None, NoColony, TRUE, 1, DefaultLimit))

ArrangeAll ==
    /\ req.op = "upload-pdf"
    /\ Becomes(arrange_bills_by_route(State, None, NoColony))

\* The default listing, whole or in pages of two, after an arrange.
ListDefault ==
    /\ req.op = "arrange-by-route"
    /\ \E limit \in {2, DefaultLimit} :
           Becomes(list_bills(State, None, NoColony, FALSE, 1, limit))

RouterNext == ListByRoute \/ ArrangeAll \/ ListDefault

SpecRouter == RouterInit /\ [][RouterNext]_vars

-----------------------------------------------------------------------------
(* Spec: the whole pipeline.  Up to MaxUploads uploads of sample documents *)
(* interleaved with arrange-by-route, generate-pdf and split-by-employee    *)
(* requests under every batch filter.                                      *)

MaxUploads == 2

WardB == <<"B">>

\* Extraction results of the sample pages.
PageO == page_of(Jane, <<"7">>, StopO, WardA)

PageN == page_of(Jane, <<"1", "2">>, StopN, WardB)

PageNoSerial == page_of(Jane, <<>>, StopO2, WardA)

PageNoOwner == page_of(<<"N", "A">>, <<"5">>, StopS, WardA)

\* Sample documents: a southern stop before a northern one; a single page
\* without a serial; a rejected page, a page without a serial and a
\* northern stop.
PipelineUploads ==
    {<<PageO, PageN>>, <<PageNoSerial>>, <<PageNoOwner, PageNoSerial, PageN>>}

BatchFilters == {None} \cup {batches[k].id : k \in 1..Len(batches)}

Init == Is(EmptyState)

\* An upload in the second of the previous upload or in the next one.
UploadPdf ==
    \E pages \in PipelineUploads :
        \E dt \in IF batches = <<>> THEN {0} ELSE {0, 1} :
            /\ Len(batches) < MaxUploads
            /\ Becomes(upload_pdf_bills([State EXCEPT !.now = @ + dt], pages))

ArrangeByRoute ==
    \E batch_id \in BatchFilters :
        Becomes(arrange_bills_by_route(State, batch_id, NoColony))

\* A composition leaves bills, batches and files as they were and reads
\* nothing a composition wrote, so the compositions are taken from the
\* states that the start, an upload or an arrange left.
StoreRequests == {"none", "upload-pdf", "arrange-by-route"}

GeneratePdf ==
    /\ req.op \in StoreRequests
    /\ \E batch_id \in BatchFilters, bills_per_page \in {0, 1, 3, 4} :
           Becomes(generate_arranged_pdf(State, batch_id, NoColony, bills_per_page))

SplitByEmployee ==
    /\ req.op \in StoreRequests
    /\ \E batch_id \in BatchFilters, employee_count \in {0, 1, 2, 3, MaxEmployeeCount + 1} :
           Becomes(split_bills_by_employee(State, batch_id, NoColony, employee_count))

SplitByEmployees ==
    /\ req.op \in StoreRequests
    /\ \E batch_id \in BatchFilters, employee_ids \in {<<"e1">>, <<"e2", "e9", "e3">>} :
           Becomes(split_bills_by_specific_employees(State, batch_id, NoColony, employee_ids))

Next == UploadPdf \/ ArrangeByRoute \/ GeneratePdf \/ SplitByEmployee \/ SplitByEmployees

Spec == Init /\ [][Next]_vars

-----------------------------------------------------------------------------
(* SpecSplit: the two split handlers on one upload of 1..MaxSplitBills     *)
(* bills, before and after arrange-by-route, for every employee_count from *)
(* 0 to MaxEmployeeCount + 1 and every list of up to MaxChosenEmployees    *)
(* employee ids.                                                           *)

MaxSplitBills == 10

MaxChosenEmployees == 3

\* A document of total pages at two stops in turn, serials descending.
SplitPages(total) ==
    [i \in 1..total |->
        page_of(Jane, str(total + 1 - i), IF i % 2 = 0 THEN StopN ELSE StopO, WardA)]

\* Ids of the three users, an id of no user, and an empty element.
EmployeeIds == {"e1", "e2", "e3", "e9", ""}

SplitInit ==
    \E total \in 1..MaxSplitBills :
        Is(upload_pdf_bills(EmptyState, SplitPages(total)))

SplitArrange ==
    /\ req.op = "upload-pdf"
    /\ Becomes(arrange_bills_by_route(State, None, NoColony))

\* A split leaves the bills and the upload directory as they were, so the
\* splits are taken from the states that an upload or an arrange left.
SplitByCount ==
    /\ req.op \in {"upload-pdf", "arrange-by-route"}
    /\ \E employee_count \in 0..(MaxEmployeeCount + 1) :
           Becomes(split_bills_by_employee(State, None, NoColony, employee_count))

SplitByIds ==
    /\ req.op \in {"upload-pdf", "arrange-by-route"}
    /\ \E employee_ids \in SeqsUpTo(EmployeeIds, MaxChosenEmployees) :
           Becomes(split_bills_by_specific_employees(State, None, NoColony, employee_ids))

SplitNext == SplitArrange \/ SplitByCount \/ SplitByIds

SpecSplit == SplitInit /\ [][SplitNext]_vars

-----------------------------------------------------------------------------
(* SpecUpload: one upload of every document of up to MaxUploadPages pages  *)
(* over the serial strings, owner names and coordinates below.             *)

MaxUploadPages == 2

\* What extract_bill_data can return as bill_sr_no: nothing, decimal digit
\* strings (with leading zeros, zero itself), and the isdigit() span "\u00b2".
UploadSerials ==
    {<<>>, <<"7">>, <<"0", "0", "7">>, <<"0">>, <<"1", "2">>, <<Superscript2>>}

\* What extract_bill_data can return as owner_name besides a name: nothing,
\* the null-like values in several spellings, and names close to them.
UploadOwners ==
    {<<>>, <<"N", "A">>, <<"n", "a">>, <<"N", "/", "A">>, <<"n", ".", "a", ".">>,
     <<"N", "o", "t", " ", "A", "v", "a", "i", "l", "a", "b", "l", "e">>,
     <<"N", "i", "l">>, <<"n", "o", "n", "e">>, <<"-">>, <<"-", "-">>,
     <<"N", "a", "t">>, <<"N", ".", "A">>}

UploadPages ==
    {page_of(Jane, sr, c, WardA) : sr \in UploadSerials, c \in {NoCoords, StopO, StopN}}
        \cup {page_of(o, <<"5">>, StopO, WardA) : o \in UploadOwners}
        \cup {page_of(<<"N", "A">>, <<Superscript2>>, StopO, WardA)}

UploadAny ==
    /\ req.op = "none"
    /\ \E pages \in SeqsUpTo(UploadPages, MaxUploadPages) :
           Becomes(upload_pdf_bills(State, pages))

ListUploaded ==
    /\ req.op = "upload-pdf"
    /\ Becomes(list_bills(State, None, NoColony, FALSE, 1, DefaultLimit))

UploadNext == UploadAny \/ ListUploaded

SpecUpload == Init /\ [][UploadNext]_vars

-----------------------------------------------------------------------------
(* SpecResolver: one upload of every document of up to MaxResolverPages    *)
(* pages with or without serial, located or not.                           *)

MaxResolverPages == 3

\* No coordinates, a zero latitude, two readings of one stop, and stops at
\* equal planar distance north and south of it.
ResolverCoords == {NoCoords, ZeroLat, StopO, StopO2, StopN, StopS}

ResolverPages ==
    {page_of(Jane, sr, c, WardA) : sr \in {<<>>, <<"7">>, <<"1", "2">>}, c \in ResolverCoords}

ResolveUpload ==
    /\ req.op = "none"
    /\ \E pages \in SeqsUpTo(ResolverPages, MaxResolverPages) :
           Becomes(upload_pdf_bills(State, pages))

ListResolved ==
    /\ req.op = "upload-pdf"
    /\ Becomes(list_bills(State, None, NoColony, FALSE, 1, DefaultLimit))

ResolverNext == ResolveUpload \/ ListResolved

SpecResolver == Init /\ [][ResolverNext]_vars

-----------------------------------------------------------------------------
(* SpecSource: the composition handlers when the source of the selection   *)
(* is gone or unreadable.  Uploads of the two-page sample document and of  *)
(* content that is no PDF, in the same second or the next one, while fewer *)
(* than MaxSourceIds identifiers have been drawn; deletions of a batch.    *)

MaxSourceIds == 4

SourceUpload ==
    \E pages \in {<<PageO, PageN>>, <<>>} :
        \E dt \in {0, 1} :
            /\ uuids < MaxSourceIds
            /\ Becomes(upload_pdf_bills([State EXCEPT !.now = @ + dt], pages))

SourceDeleteBatch ==
    \E k \in 1..Len(batches) :
        Becomes(delete_batch(State, batches[k].id))

\* A composition leaves bills, batches and files as they were, so the
\* compositions are taken from the states an upload or a deletion left.
SourceGenerate ==
    /\ req.op \in {"upload-pdf", "delete-batch"}
    /\ \E bills_per_page \in {1, 3} :
           Becomes(generate_arranged_pdf(State, None, NoColony, bills_per_page))

SourceSplitByCount ==
    /\ req.op \in {"upload-pdf", "delete-batch"}
    /\ \E employee_count \in {1, 2} :
           Becomes(split_bills_by_employee(State, None, NoColony, employee_count))

SourceSplitByIds ==
    /\ req.op \in {"upload-pdf", "delete-batch"}
    /\ Becomes(split_bills_by_specific_employees(State, None, NoColony, <<"e1", "e2">>))

SourceNext ==
    SourceUpload \/ SourceDeleteBatch \/ SourceGenerate \/ SourceSplitByCount \/ SourceSplitByIds

SpecSource == Init /\ [][SourceNext]_vars

-----------------------------------------------------------------------------
(* SpecTour: the router on every list of up to MaxTourBills bills over     *)
(* stops that are pairwise equidistant from a third one, so that the tour  *)
(* meets equal distances.                                                  *)

MaxTourBills == 4

TourCoords == {NoCoords, StopO, StopO2, StopN, StopS, StopE, StopF}

TourPages == {page_of(Jane, <<"7">>, c, WardA) : c \in TourCoords}

TourInit ==
    \E pages \in SeqsUpTo(TourPages, MaxTourBills) :
        Is(upload_pdf_bills(EmptyState, pages))

\* arrange-by-route of routers/bills.py over the whole store.
LegacyArrangeAll ==
    /\ req.op = "upload-pdf"
    /\ Becomes(legacy_arrange_bills_by_route(State, None, NoColony))

TourNext == ListByRoute \/ ArrangeAll \/ LegacyArrangeAll

SpecTour == TourInit /\ [][TourNext]_vars

-----------------------------------------------------------------------------
(* SpecExtract: one upload of every one-page document of up to MaxSpans    *)
(* spans: label spans with and without a number at one place of the page,  *)
(* digit spans left and right of the label on its line, below it and far   *)
(* below it, and a span of other text.                                     *)

MaxSpans == 3

LabelOnly == <<"B", "i", "l", "l", "S", "r", "N", "o", " ", ":">>

LabelSpaced == <<"B", "i", "l", "l", " ", "S", "r", " ", "N", "o">>

LabelNumber == <<"B", "i", "l", "l", "S", "r", "N", "o", " ", ":", " ", "1", "1", "2">>

\* The bbox of the label spans: left edge, top, right edge.
LabelLeft == 60

LabelTop == 100

LabelRight == 100

SampleSpans ==
    {span_of(t, LabelLeft, LabelTop, LabelRight) : t \in {LabelOnly, LabelSpaced, LabelNumber}}
        \cup {span_of(t, x0, y, x0 + 20) : t \in {<<"4", "5">>, <<" ", "7">>},
                                           x0 \in {10, 110}, y \in {100, 110, 130}}
        \cup {span_of(<<"W", "a", "r", "d">>, 10, 70, 40)}

ExtractUpload ==
    /\ req.op = "none"
    /\ \E spans \in SeqsUpTo(SampleSpans, MaxSpans) :
           Becomes(upload_pdf_bills(State, <<extract_bill_data(spans, Jane, StopO, WardA)>>))

ListExtracted ==
    /\ req.op = "upload-pdf"
    /\ Becomes(list_bills(State, None, NoColony, FALSE, 1, DefaultLimit))

ExtractNext == ExtractUpload \/ ListExtracted

SpecExtract == Init /\ [][ExtractNext]_vars

-----------------------------------------------------------------------------
(* SpecDelete: uploads of the sample documents, while fewer than           *)
(* MaxDeleteIds identifiers have been drawn, interleaved with delete-all   *)
(* under every batch and colony filter and with deletions of a batch.      *)

MaxDeleteIds == 4

ColonyFilters == {NoColony, WardA, WardB}

DeleteUpload ==
    \E pages \in PipelineUploads :
        /\ uuids < MaxDeleteIds
        /\ Becomes(upload_pdf_bills([State EXCEPT !.now = @ + 1], pages))

DeleteAll ==
    \E batch_id \in BatchFilters, colony \in ColonyFilters :
        Becomes(delete_all_bills(State, batch_id, colony))

DeleteBillBatch ==
    \E k \in 1..Len(batches) :
        Becomes(delete_bill_batch(State, batches[k].id))

DeleteNext == DeleteUpload \/ DeleteAll \/ DeleteBillBatch

SpecDelete == Init /\ [][DeleteNext]_vars

-----------------------------------------------------------------------------
(* SpecZero: one upload of every document of up to MaxZeroPages pages with  *)
(* or without serial whose text gives no coordinates, "0.0" as latitude,    *)
(* "0.0" as longitude, or a stop, followed by the listing by route.         *)

MaxZeroPages == 3

ZeroLon == <<286005000, 0>>

ZeroCoords == {NoCoords, ZeroLat, ZeroLon, StopO, StopN}

ZeroPages ==
    {page_of(Jane, sr, c, WardA) : sr \in {<<>>, <<"7">>, <<"1", "2">>}, c \in ZeroCoords}

ZeroUpload ==
    /\ req.op = "none"
    /\ \E pages \in SeqsUpTo(ZeroPages, MaxZeroPages) :
           Becomes(upload_pdf_bills(State, pages))

ZeroListByRoute ==
    /\ req.op = "upload-pdf"
    /\ Becomes(list_bills(State, None, NoColony, TRUE, 1, DefaultLimit))

ZeroNext == ZeroUpload \/ ZeroListByRoute

SpecZero == Init /\ [][ZeroNext]_vars

-----------------------------------------------------------------------------
(* Properties of the router, under SpecRouter *)

\* The listing by route of the whole store and the list the router was given.
RouteListed == resp.op = "list-bills" /\ resp.status = 200 /\ req.sorted_by_route

RouteInput == find_bills(bills, req.batch_id, req.colony)

\* C1: in the output of sort_by_gps_route every record without coordinates
\* (latitude or longitude absent or zero, as the router reads them) comes
\* after every record with coordinates, and the records without coordinates
\* keep the relative order they had in the input.
C1_NoGpsLast ==
    RouteListed =>
        LET out == resp.bills
        IN  /\ \A i, j \in 1..Len(out) : (i < j /\ has_gps(out[j])) => has_gps(out[i])
            /\ \A i, j \in 1..Len(out) :
                   (i < j /\ ~has_gps(out[i]) /\ ~has_gps(out[j]))
                       => index_of(RouteInput, out[i].id) < index_of(RouteInput, out[j].id)

\* A listing in which the router moved located records in front of two
\* records without coordinates that preceded them in the input.
C1_Witness ==
    /\ RouteListed
    /\ Len(RouteInput) >= 3
    /\ ~has_gps(RouteInput[1]) /\ ~has_gps(RouteInput[2]) /\ has_gps(RouteInput[3])
    /\ has_gps(resp.bills[1])
    /\ resp.bills[Len(resp.bills)].id = RouteInput[2].id

\* C2: in the output of sort_by_gps_route the records of one rounded
\* location form one contiguous run and keep, inside the run, the relative
\* order they had in the input.
C2_SameLocationContiguous ==
    RouteListed =>
        LET out == resp.bills
        IN  \A i, j \in 1..Len(out) :
                (i < j /\ has_gps(out[i]) /\ has_gps(out[j])
                       /\ location_key(out[i]) = location_key(out[j]))
                    => /\ \A k \in i..j : has_gps(out[k]) /\ location_key(out[k]) = location_key(out[i])
                       /\ index_of(RouteInput, out[i].id) < index_of(RouteInput, out[j].id)

\* The scenario of the specification: A, B, C at one stop (two raw readings
\* of it), D 500 m north, listed as D, A, B, C.
C2_Witness ==
    /\ RouteListed
    /\ Len(RouteInput) = 4
    /\ <<RouteInput[1].latitude, RouteInput[1].longitude>> = StopO
    /\ <<RouteInput[2].latitude, RouteInput[2].longitude>> = StopO2
    /\ <<RouteInput[3].latitude, RouteInput[3].longitude>> = StopO
    /\ <<RouteInput[4].latitude, RouteInput[4].longitude>> = StopN
    /\ [i \in 1..4 |-> resp.bills[i].id]
           = <<RouteInput[4].id, RouteInput[1].id, RouteInput[2].id, RouteInput[3].id>>

-----------------------------------------------------------------------------
(* Properties of arrange-by-route, under Spec *)

ArrangeDone == resp.op = "arrange-by-route" /\ resp.status = 200

\* The records the last arrange-by-route processed: those of its selection
\* that have a valid serial, in the order of the store.
Processed ==
    SelectSeq(find_bills(bills, req.batch_id, req.colony), LAMBDA b : ~b.serial_na)

\* C3: after arrange-by-route completes on a selection, the serial_number
\* values of the k processed records are exactly 1..k, each used once, and k
\* is the total_arranged of the response.
C3_PositionsContiguous ==
    ArrangeDone =>
        /\ Len(Processed) = resp.total_arranged
        /\ \A n \in 1..Len(Processed) :
               Cardinality({i \in 1..Len(Processed) : Processed[i].serial_number = n}) = 1

\* Three or more records processed, one record without serial left out, and
\* the first record of the store not the first of the route.
C3_Witness ==
    /\ ArrangeDone
    /\ Len(Processed) >= 3
    /\ resp.skipped_na >= 1
    /\ Processed[1].serial_number # 1

\* C4: the route is a function of the records alone: arrange-by-route run
\* again on the selection it has just arranged writes the same position to
\* every record and returns the same response.
C4_SecondArrangeChangesNothing ==
    ArrangeDone =>
        LET again == arrange_bills_by_route(State, req.batch_id, req.colony)
        IN  /\ again.bills = bills
            /\ again.resp = resp

\* An arrange that moved a record behind a later one of the store, on a
\* selection in which two records share a location.
C4_Witness ==
    /\ ArrangeDone
    /\ \E i, j \in 1..Len(Processed) :
           i < j /\ Processed[i].serial_number > Processed[j].serial_number
    /\ \E i, j \in 1..Len(Processed) :
           i < j /\ location_key(Processed[i]) = location_key(Processed[j])

-----------------------------------------------------------------------------
(* Properties of the split handlers, under SpecSplit *)

SplitOps == {"split-by-employee", "split-by-employees"}

SplitDone == resp.op \in SplitOps /\ resp.status = 200

\* The ordered record list of the last split and its target count N.
SplitOrdered == sort_by(find_bills(bills, req.batch_id, req.colony), "serial_number")

SplitTarget ==
    IF req.op = "split-by-employee" THEN req.employee_count
    ELSE Len(verified_employees(users, SelectSeq(req.employee_ids, LAMBDA e : e # "")))

\* The ids of the records on the pages of the k-th saved document.
BundleIds(k) == [i \in 1..Len(written[k].pages) |-> written[k].pages[i].bill]

RECURSIVE BundlesUpTo(_)
BundlesUpTo(k) == IF k = 0 THEN <<>> ELSE BundlesUpTo(k - 1) \o BundleIds(k)

\* C5: the bundles of a split are consecutive slices of the ordered record
\* list: their concatenation in bundle order is the list itself, every
\* bundle but the last has ceil(total / N) records, the last has between 1
\* and ceil(total / N), and the response reports these sizes.
C5_RangesPartition ==
    SplitDone =>
        LET total == Len(SplitOrdered)
            size == (total + SplitTarget - 1) \div SplitTarget
            n == Len(written)
        IN  /\ BundlesUpTo(n) = [i \in 1..total |-> SplitOrdered[i].id]
            /\ \A k \in 1..(n - 1) : Len(written[k].pages) = size
            /\ Len(written[n].pages) >= 1 /\ Len(written[n].pages) <= size
            /\ Len(resp.files) = n
            /\ \A k \in 1..n : resp.files[k].total_bills = Len(written[k].pages)

\* The scenario of the specification: 10 records, 3 employees, sizes 4, 4, 2.
C5_Witness ==
    /\ SplitDone
    /\ req.op = "split-by-employee"
    /\ Len(SplitOrdered) = 10
    /\ SplitTarget = 3
    /\ [k \in 1..Len(written) |-> Len(written[k].pages)] = <<4, 4, 2>>

\* C6: a split by a valid count N over a non-empty selection returns
\* exactly N files.
C6_ExactlyNDocuments ==
    (SplitDone /\ req.op = "split-by-employee") => Len(resp.files) = req.employee_count

-----------------------------------------------------------------------------
(* Properties of the composed documents, under Spec *)

\* A request for one-bill-per-page documents that found bills and a source.
Composing ==
    /\ resp.op \in SplitOps \cup {"generate-pdf"}
    /\ resp.status \notin {400, 404}
    /\ resp.op = "generate-pdf" => req.bills_per_page = 1

\* The records each document of the request is composed from.
ComposedFrom ==
    IF resp.op = "generate-pdf"
    THEN <<sort_by(find_bills(bills, req.batch_id, req.colony), "page_number")>>
    ELSE LET ranges == employee_ranges(Len(SplitOrdered), SplitTarget)
         IN  [k \in 1..Len(ranges) |-> employee_bills(SplitOrdered, ranges[k])]

ComposedSource == source_pdf(State, ComposedFrom[1][1])

StoredBill(id) == bills[index_of(bills, id)]

\* C7: every document composed one bill to a page from k records, s of them
\* with a page index outside the source, is produced and has the k - s
\* remaining pages in the order of the records.
C7_PagesKMinusSkipped ==
    Composing =>
        /\ resp.status = 200
        /\ Len(written) = Len(ComposedFrom)
        /\ \A k \in 1..Len(written) :
               LET kept == SelectSeq(ComposedFrom[k], LAMBDA b : in_range(b, ComposedSource))
               IN  BundleIds(k) = [i \in 1..Len(kept) |-> kept[i].id]

\* C8: every copied page of a composed document carries a stamp equal to the
\* bill_sr_no of its record.
C8_StampIsDisplaySerial ==
    (resp.op \in SplitOps \cup {"generate-pdf"} /\ resp.status = 200) =>
        \A k \in 1..Len(written) : \A i \in 1..Len(written[k].pages) :
            written[k].pages[i].kind = "copy"
                => written[k].pages[i].stamp = StoredBill(written[k].pages[i].bill).bill_sr_no

\* C9: in the document of generate-pdf the page of an arranged record never
\* follows the page of an arranged record with a later route position.
C9_PagesInRouteOrder ==
    (resp.op = "generate-pdf" /\ resp.status = 200 /\ req.bills_per_page = 1) =>
        \A i, j \in 1..Len(written[1].pages) :
            LET a == StoredBill(written[1].pages[i].bill)
                b == StoredBill(written[1].pages[j].bill)
            IN  (i < j /\ a.gps_arranged /\ b.gps_arranged)
                    => a.serial_number <= b.serial_number

-----------------------------------------------------------------------------
(* Properties of upload-pdf, under SpecUpload *)

UploadDone == req.op = "upload-pdf" /\ resp.status = 200

\* The serial string extraction resolved for the page of a record.
RawSerial(b) == req.pages[b.page_number].bill_sr_no

DecimalValue(s) ==
    IF Len(s) = 1 THEN DigitValue(s[1])
        ELSE IF Len(s) = 2 THEN 10 * DigitValue(s[1]) + DigitValue(s[2])
        ELSE 100 * DigitValue(s[1]) + 10 * DigitValue(s[2]) + DigitValue(s[3])

\* C10: for every record of an upload, serial_na is false exactly when the
\* resolved serial string is a non-empty string of decimal digits, and then
\* serial_number is its value and bill_sr_no is the string itself.
C10_ValidSerialKept ==
    UploadDone =>
        \A i \in 1..Len(bills) :
            LET raw == RawSerial(bills[i])
                digits == raw # <<>> /\ \A k \in 1..Len(raw) : raw[k] \in DigitChars
            IN  /\ ~bills[i].serial_na <=> digits
                /\ ~bills[i].serial_na =>
                       /\ bills[i].serial_number = DecimalValue(raw)
                       /\ bills[i].bill_sr_no = raw

\* An upload with a record of serial "007" and a record without serial.
C10_Witness ==
    /\ UploadDone
    /\ Len(bills) = 2
    /\ RawSerial(bills[1]) = <<"0", "0", "7">>
    /\ bills[1].serial_number = 7 /\ bills[1].bill_sr_no = <<"0", "0", "7">>
    /\ RawSerial(bills[2]) = <<>> /\ bills[2].serial_na

\* The pages of the last upload that passed the owner name check.
AcceptedPages ==
    SelectSeq(req.pages, LAMBDA p : is_valid_owner_name(p.owner_name))

\* "N" followed by one or more decimal digits.
IsNLabel(s) ==
    /\ Len(s) >= 2
    /\ s[1] = "N"
    /\ \A k \in 2..Len(s) : s[k] \in DigitChars

\* C11: after an upload every record without a valid serial is labelled "N"
\* followed by digits; when the upload has no record with a valid serial
\* every such label is "N0"; and an upload none of whose accepted pages has
\* a serial succeeds.
C11_MissingLabelled ==
    /\ UploadDone =>
           /\ \A i \in 1..Len(bills) : bills[i].serial_na => IsNLabel(bills[i].bill_sr_no)
           /\ (\A i \in 1..Len(bills) : bills[i].serial_na)
                  => \A i \in 1..Len(bills) : bills[i].bill_sr_no = <<"N", "0">>
    /\ (req.op = "upload-pdf" /\ \A i \in 1..Len(AcceptedPages) : AcceptedPages[i].bill_sr_no = <<>>)
           => resp.status = 200

\* An upload of two pages without serial, one of them located: both "N0".
C11_Witness ==
    /\ UploadDone
    /\ Len(bills) = 2
    /\ bills[1].serial_na /\ bills[2].serial_na
    /\ has_gps(bills[1]) /\ ~has_gps(bills[2])
    /\ bills[1].bill_sr_no = <<"N", "0">> /\ bills[2].bill_sr_no = <<"N", "0">>

-----------------------------------------------------------------------------
(* Properties of the second pass of upload-pdf, under SpecResolver *)

\* The lookup list: the records of the upload with a valid serial and
\* coordinates, in page order.
Lookup == SelectSeq(bills, LAMBDA b : ~b.serial_na /\ has_gps(b))

PlanarDistance(b, entry) ==
    euclidean_distance(entry.latitude, entry.longitude, b.latitude, b.longitude)

\* C12: when the lookup list is not empty, every located record without
\* serial is labelled "N" + the serial of the lookup entry at minimal planar
\* distance, the earliest such entry when several are at that distance.
C12_NearestEntryLabel ==
    (UploadDone /\ Lookup # <<>>) =>
        \A i \in 1..Len(bills) :
            (bills[i].serial_na /\ has_gps(bills[i])) =>
                \E k \in 1..Len(Lookup) :
                    /\ \A j \in 1..Len(Lookup) :
                           PlanarDistance(bills[i], Lookup[k]) <= PlanarDistance(bills[i], Lookup[j])
                    /\ \A j \in 1..(k - 1) :
                           PlanarDistance(bills[i], Lookup[k]) < PlanarDistance(bills[i], Lookup[j])
                    /\ bills[i].bill_sr_no = <<"N">> \o str(Lookup[k].serial_number)

\* A record without serial between a stop to the north (serial 7, page 2)
\* and one to the south (serial 12, page 3) at the same distance: "N7".
C12_Witness ==
    /\ UploadDone
    /\ Len(bills) = 3
    /\ bills[1].serial_na /\ <<bills[1].latitude, bills[1].longitude>> = StopO
    /\ ~bills[2].serial_na /\ <<bills[2].latitude, bills[2].longitude>> = StopN
    /\ ~bills[3].serial_na /\ <<bills[3].latitude, bills[3].longitude>> = StopS
    /\ bills[2].serial_number = 7 /\ bills[3].serial_number = 12
    /\ bills[1].bill_sr_no = <<"N", "7">>

\* C13: a record without serial that has no coordinates, or whose upload has
\* an empty lookup list, is labelled "N" + the serial of the first record of
\* the upload with a valid serial, located or not, and "N0" only when the
\* upload has no record with a valid serial.
C13_FallbackFirstValid ==
    UploadDone =>
        LET valid == SelectSeq(bills, LAMBDA b : ~b.serial_na)
        IN  \A i \in 1..Len(bills) :
                (bills[i].serial_na /\ (~has_gps(bills[i]) \/ Lookup = <<>>)) =>
                    bills[i].bill_sr_no =
                        IF valid # <<>> THEN <<"N">> \o str(valid[1].serial_number)
                        ELSE <<"N", "0">>

-----------------------------------------------------------------------------
(* Properties of the records without serial, under Spec *)

\* C14: through uploads and any number of arrange-by-route calls a record
\* without a valid serial keeps serial_number 0 and gps_arranged false and
\* stays in the store (every batch still holds the records its upload
\* counted); an arrange-by-route that completes marks the records without
\* serial of its selection skipped_from_order.
C14_MissingKeepsZero ==
    /\ \A i \in 1..Len(bills) :
           bills[i].serial_na => (bills[i].serial_number = 0 /\ ~bills[i].gps_arranged)
    /\ \A k \in 1..Len(batches) :
           Len(SelectSeq(bills, LAMBDA b : b.batch_id = batches[k].id)) = batches[k].total_records
    /\ ArrangeDone =>
           \A i \in 1..Len(bills) :
               (bills[i].serial_na /\ matches_query(bills[i], req.batch_id, req.colony))
                   => bills[i].skipped_from_order

\* An arrange over two uploads that routed records and skipped two records
\* without serial.
C14_Witness ==
    /\ ArrangeDone
    /\ resp.skipped_na = 2
    /\ resp.total_arranged >= 1
    /\ \E i \in 1..Len(bills) :
           bills[i].serial_na /\ bills[i].skipped_from_order /\ bills[i].serial_number = 0

-----------------------------------------------------------------------------
(* Properties of the owner name check, under SpecUpload *)

NullLikeOwners ==
    {<<"N", "A">>, <<"N", "/", "A">>, <<"N", ".", "A", ".">>,
     <<"N", "O", "T", " ", "A", "V", "A", "I", "L", "A", "B", "L", "E">>,
     <<"N", "I", "L">>, <<"N", "O", "N", "E">>, <<"-">>, <<"-", "-">>}

\* The pages of the last upload whose owner name is a name.
NamedPages ==
    {i \in 1..Len(req.pages) :
        /\ strip(req.pages[i].owner_name) # <<>>
        /\ upper(strip(req.pages[i].owner_name)) \notin NullLikeOwners}

\* C15: an upload emits one record for every page whose trimmed owner name
\* is non-empty and, in upper case, none of the null-like values, and for no
\* other page; total_bills + skipped_bills is the page count, and both
\* total_bills and the total_records of the batch are the number of records.
C15_OwnerRejectionCounted ==
    UploadDone =>
        /\ {bills[i].page_number : i \in 1..Len(bills)} = NamedPages
        /\ Len(bills) = Cardinality(NamedPages)
        /\ resp.total_bills = Len(bills)
        /\ resp.total_bills + resp.skipped_bills = Len(req.pages)
        /\ Len(batches) = 1 /\ batches[1].total_records = Len(bills)

\* A page of owner "Not Available" rejected and a page of owner "N.A" kept.
C15_Witness ==
    /\ UploadDone
    /\ Len(req.pages) = 2
    /\ req.pages[1].owner_name = <<"N", "o", "t", " ", "A", "v", "a", "i", "l", "a", "b", "l", "e">>
    /\ req.pages[2].owner_name = <<"N", ".", "A">>
    /\ resp.total_bills = 1 /\ resp.skipped_bills = 1
    /\ bills[1].page_number = 2

-----------------------------------------------------------------------------
(* Properties of the rejected requests, under Spec *)

\* C16: a split-by-employee request with employee_count below 1 or above
\* 100 is answered with status 400 whatever the store holds, changes no
\* bill, batch or file and saves no document.
C16_InvalidCountRejected ==
    [][(req'.op = "split-by-employee" /\ (req'.employee_count < 1 \/ req'.employee_count > 100))
           => /\ resp'.status = 400
              /\ written' = <<>>
              /\ bills' = bills /\ batches' = batches /\ files' = files]_vars

\* A request for 101 employees over a store with bills, rejected.
C16_Witness ==
    /\ req.op = "split-by-employee"
    /\ req.employee_count = 101
    /\ resp.status = 400
    /\ bills # <<>>
    /\ written = <<>>

\* C17: generate-pdf rejects every bills_per_page other than 1, 2 and 3 and
\* saves nothing for it, and the pages_created of a response is the number
\* of pages of the saved document.
C17_MultiUpValidated ==
    req.op = "generate-pdf" =>
        /\ req.bills_per_page \notin {1, 2, 3} => (resp.status # 200 /\ written = <<>>)
        /\ resp.status = 200 => resp.pages_created = Len(written[1].pages)

-----------------------------------------------------------------------------
(* Properties of the source document, under SpecSource *)

ComposeOps == SplitOps \cup {"generate-pdf"}

\* The first record of the selection of the last composition request, whose
\* batch names the source document.
FirstSelected ==
    IF resp.op = "generate-pdf"
    THEN sort_by(find_bills(bills, req.batch_id, req.colony), "page_number")[1]
    ELSE SplitOrdered[1]

SourceGone == source_missing(State, FirstSelected)

SourceUnreadable == ~SourceGone /\ source_pdf(State, FirstSelected).page_count = 0

\* C18: a composition request over a selection whose source document is
\* missing or cannot be opened fails and saves no document.
C18_NoSourceNothingWritten ==
    (resp.op \in ComposeOps /\ find_bills(bills, req.batch_id, req.colony) # <<>>
        /\ (SourceGone \/ SourceUnreadable))
        => (resp.status # 200 /\ written = <<>>)

\* A split over bills whose batch document has been deleted.
C18_Witness ==
    /\ resp.op = "split-by-employee"
    /\ bills # <<>>
    /\ SourceGone
    /\ resp.status = 404
    /\ written = <<>>

-----------------------------------------------------------------------------
(* Properties of the counters of a composition, under Spec *)

\* C19: the record count reported for every document of a successful
\* composition (total_bills of a bundle, included_count of generate-pdf with
\* one bill to a page) is the number of source pages placed in the document.
C19_SkipsCounted ==
    (resp.op \in ComposeOps /\ resp.status = 200) =>
        /\ resp.op \in SplitOps =>
               \A k \in 1..Len(written) : resp.files[k].total_bills = Len(written[k].pages)
        /\ (resp.op = "generate-pdf" /\ req.bills_per_page = 1) =>
               resp.included_count = Len(written[1].pages)

-----------------------------------------------------------------------------
(* Properties of the default listing, under SpecRouter *)

\* C20: once arrange-by-route has arranged every stored bill, the first
\* page of the default listing holds serial_number 1, 2, ... in that order.
C20_DefaultListingSequential ==
    (resp.op = "list-bills" /\ ~req.sorted_by_route /\ req.page = 1
        /\ \A i \in 1..Len(bills) : bills[i].gps_arranged)
        => \A i \in 1..Len(resp.bills) : resp.bills[i].serial_number = i

-----------------------------------------------------------------------------
(* Properties of the counters of arrange-by-route, under Spec *)

\* The records matching the filter of the last request.
Selection == find_bills(bills, req.batch_id, req.colony)

\* C21 as stated: the total_arranged of an arrange-by-route is the number of
\* bills in its selection.
C21_AllSelectedArranged ==
    ArrangeDone => resp.total_arranged = Len(Selection)

\* C21: the total_arranged of an arrange-by-route is the number of bills of
\* its selection that have a valid serial, every one of which is arranged;
\* skipped_na is the number of the others, so the two add up to the
\* selection.
C21_ValidSelectedArranged ==
    ArrangeDone =>
        /\ resp.total_arranged = Cardinality({i \in 1..Len(Selection) : ~Selection[i].serial_na})
        /\ resp.skipped_na = Cardinality({i \in 1..Len(Selection) : Selection[i].serial_na})
        /\ resp.total_arranged + resp.skipped_na = Len(Selection)
        /\ \A i \in 1..Len(Selection) : ~Selection[i].serial_na => Selection[i].gps_arranged

\* An arrange of one batch out of two: two records selected, one arranged
\* and one skipped.
C21_Witness ==
    /\ ArrangeDone
    /\ req.batch_id # None
    /\ Len(batches) = 2
    /\ Len(Selection) = 2 /\ Len(Selection) < Len(bills)
    /\ resp.total_arranged = 1 /\ resp.skipped_na = 1

-----------------------------------------------------------------------------
(* Properties of the serial classification, under SpecUpload *)

\* C22: every record of an upload with serial_na false has a serial_number
\* of at least 1, and a record whose resolved serial string does not denote
\* a positive integer (such as "0") has serial_na true.
C22_ValidSerialPositive ==
    UploadDone =>
        \A i \in 1..Len(bills) :
            LET raw == strip(RawSerial(bills[i]))
            IN  /\ ~bills[i].serial_na => bills[i].serial_number >= 1
                /\ (int_raises(raw) \/ int(raw) < 1) => bills[i].serial_na

-----------------------------------------------------------------------------
(* Properties of the anchor of the route, under SpecRouter *)

\* The orders a list of n records can be given in.
InputOrders(n) == {p \in [1..n -> 1..n] : \A i, j \in 1..n : i # j => p[i] # p[j]}

Permuted(s, p) == [i \in 1..Len(s) |-> s[p[i]]]

\* C23: the route starts at the rounded location of maximal score
\* latitude - 0.1 * longitude, and at that same location for every order in
\* which the records of the input are given.
C23_AnchorOrderIndependent ==
    (RouteListed /\ valid_gps_bills(RouteInput) # <<>>) =>
        LET start == location_key(resp.bills[1])
        IN  /\ \A i \in 1..Len(RouteInput) :
                   has_gps(RouteInput[i])
                       => location_score(location_key(RouteInput[i])) <= location_score(start)
            /\ \A p \in InputOrders(Len(RouteInput)) :
                   location_key(sort_by_gps_route(Permuted(RouteInput, p))[1]) = start

-----------------------------------------------------------------------------
(* Properties of the stored source documents, under Spec *)

\* C24: no request changes the file that a stored batch names as its
\* source document: an upload writes a file no batch refers to, and a
\* composition writes only documents under names of its own.
C24_SourceNeverOverwritten ==
    [][\A k \in 1..Len(batches) :
           batches[k].pdf_filename \in DOMAIN files
               => /\ batches[k].pdf_filename \in DOMAIN files'
                  /\ files'[batches[k].pdf_filename] = files[batches[k].pdf_filename]
                  /\ \A d \in 1..Len(written') :
                         written'[d].filename # batches[k].pdf_filename]_vars

-----------------------------------------------------------------------------
(* Properties of the tour, under SpecTour *)

\* A list with every run of equal neighbours reduced to one element.
RECURSIVE Collapsed(_)
Collapsed(s) ==
    IF Len(s) <= 1 THEN s
    ELSE IF s[1] = s[2] THEN Collapsed(Tail(s))
    ELSE <<s[1]>> \o Collapsed(Tail(s))

\* The locations in the order the listing by route visits them.
Tour ==
    LET located == SelectSeq(resp.bills, has_gps)
    IN  Collapsed([i \in 1..Len(located) |-> location_key(located[i])])

InputLocations ==
    {location_key(RouteInput[i]) : i \in {k \in 1..Len(RouteInput) : has_gps(RouteInput[k])}}

\* The position in the input of the first record at a location.
FirstSeen(loc) ==
    CHOOSE i \in 1..Len(RouteInput) :
        /\ has_gps(RouteInput[i]) /\ location_key(RouteInput[i]) = loc
        /\ \A j \in 1..(i - 1) : ~(has_gps(RouteInput[j]) /\ location_key(RouteInput[j]) = loc)

TourDistance(a, b) == haversine_distance(a[1], a[2], b[1], b[2])

\* C25: with two or more distinct locations, every location of the tour
\* after the first is, among the locations not visited before it, at minimal
\* haversine distance from its predecessor, and among those at that distance
\* the one met first in the input; the tour holds every distinct location of
\* the input exactly once.
C25_GreedyNearestTour ==
    (RouteListed /\ Cardinality(InputLocations) >= 2) =>
        /\ Len(Tour) = Cardinality(InputLocations)
        /\ Range(Tour) = InputLocations
        /\ \A k \in 2..Len(Tour) : \A j \in (k + 1)..Len(Tour) :
               /\ TourDistance(Tour[k - 1], Tour[k]) <= TourDistance(Tour[k - 1], Tour[j])
               /\ TourDistance(Tour[k - 1], Tour[k]) = TourDistance(Tour[k - 1], Tour[j])
                      => FirstSeen(Tour[k]) < FirstSeen(Tour[j])

\* Records at the western stop, the eastern stop, the first stop and the
\* northern stop: the tour starts in the north, goes to the first stop and
\* from there to the western one, met before the eastern one at the same
\* distance.
C25_Witness ==
    /\ RouteListed
    /\ [i \in 1..Len(RouteInput) |-> <<RouteInput[i].latitude, RouteInput[i].longitude>>]
           = <<StopF, StopE, StopO, StopN>>
    /\ Tour = <<<<round6(StopN[1]), round6(StopN[2])>>, <<round6(StopO[1]), round6(StopO[2])>>,
                <<round6(StopF[1]), round6(StopF[2])>>, <<round6(StopE[1]), round6(StopE[2])>>>>

-----------------------------------------------------------------------------
(* Properties of the router on a single location, under SpecRouter *)

Ids(s) == [i \in 1..Len(s) |-> s[i].id]

SingleLocation == RouteListed /\ Cardinality(InputLocations) = 1

\* C26 as stated: when the located records of the input share one rounded
\* location, the router returns all records, located or not, in the order
\* of the input.
C26_SingleLocationInputOrder ==
    SingleLocation => Ids(resp.bills) = Ids(RouteInput)

\* C26: when the located records of the input share one rounded location,
\* the router returns the located records in the order of the input,
\* followed by the records without coordinates in the order of the input.
C26_SingleLocationLocatedFirst ==
    SingleLocation =>
        Ids(resp.bills) = Ids(SelectSeq(RouteInput, has_gps))
                              \o Ids(SelectSeq(RouteInput, LAMBDA b : ~has_gps(b)))

\* Two readings of one stop, each behind a record without coordinates: the
\* located records come first.
C26_Witness ==
    /\ SingleLocation
    /\ [i \in 1..Len(RouteInput) |-> <<RouteInput[i].latitude, RouteInput[i].longitude>>]
           = <<NoCoords, StopO, NoCoords, StopO2>>
    /\ Ids(resp.bills) = <<RouteInput[2].id, RouteInput[4].id, RouteInput[1].id, RouteInput[3].id>>

-----------------------------------------------------------------------------
(* Properties of the extraction of the serial, under SpecExtract *)

\* The spans of the uploaded page and the serial string extracted from it.
PageSpans == req.pages[1].spans

Extracted == req.pages[1].bill_sr_no

LabelSpans == SelectSeq(PageSpans, LAMBDA s : is_label_span(s.text))

NumberedLabels == SelectSeq(LabelSpans, LAMBDA s : trailing_number(s.text) # <<>>)

\* The digit spans within 20 units vertically of the label, and those of
\* them that lie to the right of or near the right edge of the label.
NearLabel ==
    SelectSeq(PageSpans, LAMBDA s : isdigit(strip(s.text)) /\ abs(s.y - LabelSpans[1].y) < 20)

RightOfLabel == SelectSeq(NearLabel, LAMBDA s : s.x0 >= LabelSpans[1].x1 - 50)

\* C27: a label span that ends in a number yields that number; otherwise
\* the digit spans within 20 units vertically of the label are candidates,
\* those right of or near the label's right edge are taken when there are
\* any and all candidates otherwise, and the vertically closest of them is
\* the result; the patterns over the page text decide only when there is no
\* candidate.
C27_PositionAwareSerial ==
    UploadDone =>
        /\ NumberedLabels # <<>> => Extracted = trailing_number(NumberedLabels[1].text)
        /\ (NumberedLabels = <<>> /\ LabelSpans # <<>> /\ NearLabel # <<>>) =>
               LET pool == IF RightOfLabel # <<>> THEN RightOfLabel ELSE NearLabel
               IN  \E k \in 1..Len(pool) :
                       /\ \A j \in 1..Len(pool) :
                              abs(pool[k].y - LabelSpans[1].y) <= abs(pool[j].y - LabelSpans[1].y)
                       /\ Extracted = strip(pool[k].text)
        /\ (NumberedLabels = <<>> /\ (LabelSpans = <<>> \/ NearLabel = <<>>)) =>
               Extracted = find_value(SerialPatterns, page_text(PageSpans))

-----------------------------------------------------------------------------
(* Properties of the router as a permutation, under SpecTour *)

\* C28: the output of sort_by_gps_route holds every record of its input
\* exactly once and no other record.  For the router of server.py: the
\* listing by route holds every selected record once.  For the router of
\* routers/bills.py: its arrange-by-route reports as many records as it
\* selected and leaves them with the positions 1..n, each used once.
C28_OutputIsPermutation ==
    /\ RouteListed =>
           /\ Len(resp.bills) = Len(RouteInput)
           /\ \A i \in 1..Len(RouteInput) :
                  Cardinality({k \in 1..Len(resp.bills) : resp.bills[k].id = RouteInput[i].id}) = 1
    /\ (resp.op = "legacy-arrange-by-route" /\ resp.status = 200) =>
           /\ resp.total_arranged = Len(Selection)
           /\ \A n \in 1..Len(Selection) :
                  Cardinality({i \in 1..Len(Selection) : Selection[i].serial_number = n}) = 1

\* A listing by route of four records, two at one stop and one without
\* coordinates, in an order that is not the order of the input.
C28_Witness ==
    /\ RouteListed
    /\ Len(RouteInput) = 4
    /\ Ids(resp.bills) # Ids(RouteInput)
    /\ \E i, j \in 1..4 : i # j /\ has_gps(RouteInput[i]) /\ has_gps(RouteInput[j])
                             /\ location_key(RouteInput[i]) = location_key(RouteInput[j])
    /\ \E i \in 1..4 : ~has_gps(RouteInput[i])

\* An arrange-by-route of routers/bills.py over the same kind of input
\* that gave the first record a position other than 1.
C28_LegacyWitness ==
    /\ resp.op = "legacy-arrange-by-route" /\ resp.status = 200
    /\ Len(Selection) = 4
    /\ Selection[1].serial_number # 1
    /\ \E i \in 1..4 : ~has_gps(Selection[i])

-----------------------------------------------------------------------------
(* Properties of the batch documents, under SpecDelete *)

\* C29: every stored batch has total_records equal to the number of stored
\* bills that carry its id, and at least one such bill.
C29_BatchCountsMatch ==
    \A k \in 1..Len(batches) :
        LET held == Len(SelectSeq(bills, LAMBDA b : b.batch_id = batches[k].id))
        IN  batches[k].total_records = held /\ held >= 1

-----------------------------------------------------------------------------
(* Properties of the records with a zero coordinate, under SpecZero *)

ZeroCoordinate(b) == b.latitude = 0 \/ b.longitude = 0

Positioned(b) == b.latitude \notin {None, 0} /\ b.longitude \notin {None, 0}

\* The records with a valid serial and both coordinates present and not zero.
Anchors == SelectSeq(bills, LAMBDA b : ~b.serial_na /\ Positioned(b))

\* C30: a record whose latitude or longitude is 0 is handled as a record
\* without coordinates.  The listing by route ends with the records that
\* have a zero or absent coordinate, in input order, after every other
\* record; a located record without serial is labelled with the serial of a
\* record whose coordinates are both present and not zero; and a record
\* without serial that has a zero coordinate is labelled "N" + the serial of
\* the first lookup entry, or "N0" when the lookup list is empty.
C30_ZeroIsCoordinateLess ==
    /\ RouteListed =>
           LET out == resp.bills
               trailing == SelectSeq(RouteInput, LAMBDA b : ~Positioned(b))
               located == Len(RouteInput) - Len(trailing)
           IN  /\ Len(out) = Len(RouteInput)
               /\ \A i \in 1..located : Positioned(out[i])
               /\ \A i \in 1..Len(trailing) : out[located + i].id = trailing[i].id
    /\ UploadDone =>
           \A i \in 1..Len(bills) :
               /\ (bills[i].serial_na /\ Positioned(bills[i]) /\ Anchors # <<>>) =>
                      \E k \in 1..Len(Anchors) :
                          bills[i].bill_sr_no = <<"N">> \o str(Anchors[k].serial_number)
               /\ (bills[i].serial_na /\ ZeroCoordinate(bills[i])) =>
                      bills[i].bill_sr_no =
                          IF Anchors = <<>> THEN <<"N", "0">>
                          ELSE <<"N">> \o str(Anchors[1].serial_number)

\* A record without serial at latitude 0, a record with serial 7 at
\* longitude 0 and a record with serial 12 at a stop: the first is labelled
\* "N12" and the listing by route starts with the third.
C30_Witness ==
    /\ RouteListed
    /\ Len(bills) = 3
    /\ bills[1].serial_na /\ bills[1].latitude = 0
    /\ bills[2].serial_number = 7 /\ bills[2].longitude = 0
    /\ bills[3].serial_number = 12 /\ Positioned(bills[3])
    /\ bills[1].bill_sr_no = <<"N", "1", "2">>
    /\ Ids(resp.bills) = <<bills[3].id, bills[1].id, bills[2].id>>

====
